---- MODULE Spec2Model ----
(***************************************************************************)
(* A model of the email-writer data pipeline:                              *)
(*   lib/email_cleaner.py   extraction, sanitizing, classification and     *)
(*                          process_mbox (the Conversation Builder)        *)
(*   lib/prompt_enhancer.py the Generic-Prompt Refiner                     *)
(*   prepare_data.py        split_dataset (the Dataset Splitter)           *)
(*                                                                         *)
(* A Python str is modelled as a sequence of one-character strings, so     *)
(* that lower(), strip(), split(), the `in' operator and the regular       *)
(* expressions of the source are computed, not assumed.                    *)
(***************************************************************************)
EXTENDS Integers, Sequences, FiniteSets, TLC

(***************************************************************************)
(* Bounds of the model.                                                    *)
(***************************************************************************)
\* longest mailbox explored by Spec
MaxBox == 3
\* split_dataset is called with every list length up to this, and 10, 20, 50
MaxSplit == 4
\* calls of split_dataset in one process
MaxCalls == 2
\* draws other code makes from the shared generator
MaxDraws == 2
\* enhance_generic_prompts: every example list up to this length
MaxExamples == 3
\* main: the longest mailbox holds this many messages after its first
MaxBulk == 21
\* the sanitizer: bodies of up to this many lines, sanitized this many times
MaxLines == 2
MaxPasses == 2
\* the extractor: multipart messages of up to this many content parts
MaxParts == 2
\* the parser of answers: batches of up to this many bodies
MaxBodies == 3
\* monitor_job: the service moves the job on at most this often
MaxChanges == 2

(***************************************************************************)
(* Characters and the str methods the source uses.                         *)
(***************************************************************************)
UpperSeq == <<"A","B","C","D","E","F","G","H","I","J","K","L","M","N","O","P","Q","R","S","T","U","V","W","X","Y","Z">>
LowerSeq == <<"a","b","c","d","e","f","g","h","i","j","k","l","m","n","o","p","q","r","s","t","u","v","w","x","y","z">>
DigitSeq == <<"0","1","2","3","4","5","6","7","8","9">>

Range(f) == {f[i] : i \in DOMAIN f}
UpperSet == Range(UpperSeq)
LowerSet == Range(LowerSeq)
DigitSet == Range(DigitSeq)
\* the whitespace str.strip(), str.split() and the regex class \s recognise
SpaceSet == {" ", "\n", "\t", "\r"}

LowerTable == [c \in UpperSet |-> LowerSeq[CHOOSE i \in 1..26 : UpperSeq[i] = c]]
LowerChar(c) == IF c \in UpperSet THEN LowerTable[c] ELSE c

IsSpace(c) == c \in SpaceSet
IsDigit(c) == c \in DigitSet
IsAlpha(c) == c \in UpperSet \/ c \in LowerSet
IsWordChar(c) == IsAlpha(c) \/ IsDigit(c) \/ c = "_"

SetMin(S) == CHOOSE x \in S : \A y \in S : x <= y
SetMax(S) == CHOOSE x \in S : \A y \in S : x >= y

\* s.lower()
str_lower(s) == [i \in 1..Len(s) |-> LowerChar(s[i])]

\* s.strip()
str_strip(s) ==
  LET keep == {i \in 1..Len(s) : ~IsSpace(s[i])}
  IN  IF keep = {} THEN <<>> ELSE SubSeq(s, SetMin(keep), SetMax(keep))

\* len(s.split()): the number of maximal runs of non-whitespace
WordCount(s) ==
  Cardinality({i \in 1..Len(s) : ~IsSpace(s[i]) /\ (i = 1 \/ IsSpace(s[i-1]))})

\* s[i:].startswith(p), positions counted from 1
StartsWithAt(s, p, i) ==
  /\ i + Len(p) - 1 <= Len(s)
  /\ \A j \in 1..Len(p) : s[i + j - 1] = p[j]

\* s.startswith(p)
str_startswith(s, p) == StartsWithAt(s, p, 1)

\* p in s
str_contains(s, p) == \E i \in 1..(Len(s) - Len(p) + 1) : StartsWithAt(s, p, i)

\* s.splitlines() (the only line boundary of the modelled texts is "\n")
RECURSIVE str_splitlines(_)
str_splitlines(s) ==
  IF s = <<>> THEN <<>>
  ELSE LET nl == {i \in 1..Len(s) : s[i] = "\n"}
       IN  IF nl = {} THEN <<s>>
           ELSE LET k == SetMin(nl)
                IN  <<SubSeq(s, 1, k - 1)>> \o str_splitlines(SubSeq(s, k + 1, Len(s)))

\* s.split("\n")
RECURSIVE str_split_nl(_)
str_split_nl(s) ==
  LET nl == {i \in 1..Len(s) : s[i] = "\n"}
  IN  IF nl = {} THEN <<s>>
      ELSE LET k == SetMin(nl)
           IN  <<SubSeq(s, 1, k - 1)>> \o str_split_nl(SubSeq(s, k + 1, Len(s)))

\* "\n".join(lines)
RECURSIVE str_join_nl(_)
str_join_nl(lines) ==
  IF lines = <<>> THEN <<>>
  ELSE IF Len(lines) = 1 THEN lines[1]
  ELSE lines[1] \o <<"\n">> \o str_join_nl(Tail(lines))

\* s.split(p, 1)[0]: the text before the first occurrence of p
SplitFirst(s, p) ==
  LET at == {i \in 1..(Len(s) - Len(p) + 1) : StartsWithAt(s, p, i)}
  IN  IF at = {} THEN s ELSE SubSeq(s, 1, SetMin(at) - 1)

(***************************************************************************)
(* Regular expressions.  Every pattern of the source is a concatenation of *)
(* quantified one-character atoms (alternations are written as several     *)
(* patterns).  An item is [k, c, lo, hi]: k names the atom ("lit" for the  *)
(* literal character c), lo..hi bounds the repetition, hi = -1 unbounded.  *)
(***************************************************************************)
Lit(ch) == [k |-> "lit", c |-> ch, lo |-> 1, hi |-> 1]
Opt(ch) == [k |-> "lit", c |-> ch, lo |-> 0, hi |-> 1]
Rep(ch, n, m) == [k |-> "lit", c |-> ch, lo |-> n, hi |-> m]
Cls(name, n, m) == [k |-> name, c |-> "", lo |-> n, hi |-> m]
LitStr(s) == [i \in 1..Len(s) |-> Lit(s[i])]

ItemMatches(it, ch, icase) ==
  CASE it.k = "lit"   -> IF icase THEN LowerChar(ch) = LowerChar(it.c) ELSE ch = it.c
    [] it.k = "any"   -> TRUE                              \* . with DOTALL
    [] it.k = "dot"   -> ch # "\n"                         \* .
    [] it.k = "s"     -> IsSpace(ch)                       \* \s
    [] it.k = "S"     -> ~IsSpace(ch)                      \* \S
    [] it.k = "d"     -> IsDigit(ch)                       \* \d
    [] it.k = "w"     -> IsWordChar(ch)                    \* \w
    [] it.k = "w-"    -> IsWordChar(ch) \/ ch = "-"        \* [\w-], [\w_-]
    [] it.k = "sn"    -> IsSpace(ch)                       \* [\s\n]
    [] it.k = "sep"   -> ch \in {"-", "."} \/ IsSpace(ch)  \* [-.\s]
    [] it.k = "notgt" -> ch # ">"                          \* [^>]
    [] it.k = "nws"   -> ~IsWordChar(ch) /\ ~IsSpace(ch)   \* [^\w\s]

\* how many characters from position i on match the atom (at most it.hi)
RECURSIVE RunLen(_, _, _, _, _)
RunLen(it, s, i, icase, n) ==
  IF (it.hi >= 0 /\ n >= it.hi) \/ i + n > Len(s) \/ ~ItemMatches(it, s[i + n], icase)
  THEN n
  ELSE RunLen(it, s, i, icase, n + 1)

\* the positions just after a match of items k.. of p that starts at i
RECURSIVE Ends(_, _, _, _, _)
Ends(p, k, s, i, icase) ==
  IF k > Len(p) THEN {i}
  ELSE LET r == RunLen(p[k], s, i, icase, 0)
       IN  UNION {Ends(p, k + 1, s, i + n, icase) : n \in p[k].lo..r}

\* re.match(p, s)
re_match(p, s, icase) == Ends(p, 1, s, 1, icase) # {}
\* re.fullmatch(p, s)
re_fullmatch(p, s, icase) == (Len(s) + 1) \in Ends(p, 1, s, 1, icase)
\* re.search(p, s)
re_search(p, s, icase) == \E i \in 1..Len(s) : Ends(p, 1, s, i, icase) # {}
\* re.search("^" + p, s, re.MULTILINE)
re_search_bol(p, s, icase) ==
  \E i \in 1..Len(s) : (i = 1 \/ s[i-1] = "\n") /\ Ends(p, 1, s, i, icase) # {}

\* re.split(p, s)[0]: the text before the leftmost match
re_split_first(p, s, icase) ==
  LET at == {i \in 1..Len(s) : Ends(p, 1, s, i, icase) # {}}
  IN  IF at = {} THEN s ELSE SubSeq(s, 1, SetMin(at) - 1)

\* re.sub(p, repl, s): every leftmost non-overlapping match replaced.  The
\* match taken at a position is the longest one for the greedy patterns of
\* the source and the shortest one for its lazy pattern.
RECURSIVE re_sub_from(_, _, _, _, _, _)
re_sub_from(p, repl, s, from, icase, lazy) ==
  LET at == {i \in from..Len(s) : Ends(p, 1, s, i, icase) # {}}
  IN  IF at = {} THEN SubSeq(s, from, Len(s))
      ELSE LET i == SetMin(at)
               e == Ends(p, 1, s, i, icase)
               j == IF lazy THEN SetMin(e) ELSE SetMax(e)
           IN  SubSeq(s, from, i - 1) \o repl \o re_sub_from(p, repl, s, j, icase, lazy)
re_sub(p, repl, s, icase, lazy) == re_sub_from(p, repl, s, 1, icase, lazy)

(***************************************************************************)
(* lib/email_cleaner.py: the Body Extractor.                               *)
(*                                                                         *)
(* A message is [msgid, from, subject, inreply, multipart, parts]: the     *)
(* four headers as msg.get(name, "") returns them, and the leaf parts in   *)
(* msg.walk() order.  A part is [ctype, disp, payload, charset]; payload   *)
(* is the byte string get_payload(decode=True) returns, or None.  A        *)
(* single-part message has exactly one part, the message itself.           *)
(***************************************************************************)
\* None, told apart from every str: a one-element sequence that is no character
None == <<"None">>
\* a byte that is no valid UTF-8, and what errors="replace" decodes it to
BadByte == "\\xff"
ReplacementChar == "U+FFFD"
KnownCharsets == {"", "utf-8", "us-ascii"}

\* part.get_content_charset() or "utf-8"; bytes.decode(charset, errors="replace")
DecodeRaises(part) == part.charset \notin KnownCharsets
Decode(part) ==
  [i \in 1..Len(part.payload) |->
     IF part.payload[i] = BadByte THEN ReplacementChar ELSE part.payload[i]]

RE_tag == <<Lit("<"), Cls("notgt", 1, -1), Lit(">")>>
RE_blank_lines == <<Lit("\n"), Cls("s", 0, -1), Lit("\n"), Cls("s", 0, -1), Rep("\n", 1, -1)>>
RE_script_open == LitStr(<<"<","s","c","r","i","p","t">>) \o <<Cls("notgt", 0, -1), Lit(">")>>
RE_style_open == LitStr(<<"<","s","t","y","l","e">>) \o <<Cls("notgt", 0, -1), Lit(">")>>

\* soup(["script", "style"]) decomposed: the element from its opening tag
\* to its closing tag is removed (to the end of the text when unclosed)
RECURSIVE DropElement(_, _, _)
DropElement(s, open, close) ==
  LET at == {i \in 1..Len(s) : Ends(open, 1, s, i, TRUE) # {}}
  IN  IF at = {} THEN s
      ELSE LET i == SetMin(at)
               rest == SubSeq(s, SetMin(Ends(open, 1, s, i, TRUE)), Len(s))
               c == {j \in 1..Len(rest) : Ends(LitStr(close), 1, rest, j, TRUE) # {}}
           IN  IF c = {} THEN SubSeq(s, 1, i - 1)
               ELSE SubSeq(s, 1, i - 1)
                    \o DropElement(SubSeq(rest, SetMin(c) + Len(close), Len(rest)), open, close)

\* soup.get_text("\n"): the text nodes between the tags, joined by "\n"
RECURSIVE TextNodes(_)
TextNodes(s) ==
  LET at == {i \in 1..Len(s) : Ends(RE_tag, 1, s, i, FALSE) # {}}
  IN  IF at = {} THEN (IF s = <<>> THEN <<>> ELSE <<s>>)
      ELSE LET i == SetMin(at)
               j == SetMin(Ends(RE_tag, 1, s, i, FALSE))
           IN  (IF i = 1 THEN <<>> ELSE <<SubSeq(s, 1, i - 1)>>)
               \o TextNodes(SubSeq(s, j, Len(s)))
html_get_text(decoded) ==
  str_join_nl(TextNodes(DropElement(DropElement(decoded, RE_script_open, <<"<","/","s","c","r","i","p","t",">">>),
                                    RE_style_open, <<"<","/","s","t","y","l","e",">">>)))

\* the loop over msg.walk(): [text, html] after the parts from k on, each
\* None until set.  `not text_part' holds for None and for the empty string.
RECURSIVE WalkParts(_, _, _, _)
WalkParts(parts, k, text_part, html_part) ==
  IF k > Len(parts) THEN [text |-> text_part, html |-> html_part]
  ELSE LET part == parts[k]
       IN  IF str_contains(part.disp, <<"a","t","t","a","c","h","m","e","n","t">>)
             THEN WalkParts(parts, k + 1, text_part, html_part)
           ELSE IF part.payload = None
             THEN WalkParts(parts, k + 1, text_part, html_part)
           ELSE IF DecodeRaises(part)
             THEN WalkParts(parts, k + 1, text_part, html_part)
           ELSE IF part.ctype = "text/plain" /\ (text_part = None \/ text_part = <<>>)
             THEN WalkParts(parts, k + 1, Decode(part), html_part)
           ELSE IF part.ctype = "text/html" /\ (html_part = None \/ html_part = <<>>)
             THEN WalkParts(parts, k + 1, text_part, html_get_text(Decode(part)))
           ELSE WalkParts(parts, k + 1, text_part, html_part)

\* a falsy payload: None or b""
Truthy(x) == x # None /\ x # <<>>

\* does extract_clean_text(msg) raise (the single-part branch has no try)
extract_raises(msg) ==
  ~msg.multipart /\ Truthy(msg.parts[1].payload) /\ DecodeRaises(msg.parts[1])

\* extract_clean_text(msg), when it returns
extract_clean_text(msg) ==
  LET sel  == IF msg.multipart THEN WalkParts(msg.parts, 1, None, None)
              ELSE [text |-> IF Truthy(msg.parts[1].payload)
                             THEN Decode(msg.parts[1]) ELSE None,
                    html |-> None]
      body == IF Truthy(sel.text) THEN sel.text
              ELSE IF Truthy(sel.html) THEN sel.html ELSE <<>>
      b1   == re_sub(RE_tag, <<>>, body, FALSE, FALSE)
      b2   == re_sub(RE_blank_lines, <<"\n", "\n">>, b1, FALSE, FALSE)
  IN  str_strip(b2)

(***************************************************************************)
(* lib/email_cleaner.py: the Body Sanitizer.                               *)
(***************************************************************************)
RE_on_wrote == LitStr(<<"O","n"," ">>) \o <<Cls("any", 1, -1)>> \o LitStr(<<"w","r","o","t","e",":">>)
RE_on_weekday ==
  <<Lit("\n"), Cls("s", 0, -1), Lit("O"), Lit("n"), Cls("s", 1, -1), Cls("w", 1, -1), Lit(",")>>

NotQuotedLine(ln) == ~str_startswith(str_strip(ln), <<">">>)

strip_quoted(body) ==
  LET b1 == str_join_nl(SelectSeq(str_splitlines(body), NotQuotedLine))
      b2 == re_split_first(RE_on_wrote, b1, FALSE)
      b3 == re_split_first(RE_on_weekday, b2, FALSE)
  IN  str_strip(b3)

RE_sent_from == LitStr(<<"S","e","n","t"," ","f","r","o","m"," ","m","y"," ">>) \o <<Cls("dot", 1, -1)>>

strip_signature(body) ==
  LET b1 == IF str_contains(body, <<"-","-">>) THEN SplitFirst(body, <<"-","-">>) ELSE body
      b2 == re_sub(RE_sent_from, <<>>, b1, FALSE, FALSE)
  IN  str_strip(b2)

RE_underscores == <<Rep("_", 20, -1)>>
HeaderNames == {<<"F","r","o","m">>, <<"S","e","n","t">>, <<"T","o">>, <<"S","u","b","j","e","c","t">>, <<"C","c">>, <<"B","c","c">>}
\* the warning glyph of the source, a three-character string
WarningGlyph == <<"U+201A", "U+00F6", "U+2020">>

KeptMetadataLine(line) ==
  /\ ~\E h \in HeaderNames : re_match(LitStr(h) \o <<Lit(":"), Cls("s", 0, -1)>>, line, TRUE)
  /\ ~str_contains(str_lower(line), <<"e","m","a","i","l"," ","o","r","i","g","i","n","a","t","e","d"," ","f","r","o","m"," ","a","n"," ","e","x","t","e","r","n","a","l"," ","s","e","n","d","e","r">>)
  /\ ~str_contains(str_lower(line), <<"d","o"," ","n","o","t"," ","c","l","i","c","k"," ","l","i","n","k","s">>)
  /\ ~str_startswith(str_strip(line), WarningGlyph)

strip_email_metadata(body) ==
  LET b1 == re_sub(RE_underscores, <<>>, body, FALSE, FALSE)
      b2 == str_join_nl(SelectSeq(str_splitlines(b1), KeptMetadataLine))
  IN  str_strip(b2)

\* process_mbox lines 321-323: the three stages in order
sanitize(body) == strip_email_metadata(strip_signature(strip_quoted(body)))

(***************************************************************************)
(* lib/email_cleaner.py: the Meaningfulness Classifier.                    *)
(***************************************************************************)
Sp0 == <<Cls("s", 0, -1)>>
Sp1 == <<Cls("s", 1, -1)>>
W1  == <<Cls("w", 1, -1)>>
D1  == <<Cls("d", 1, -1)>>

RE_url == LitStr(<<"h","t","t","p">>) \o <<Opt("s")>> \o LitStr(<<":","/","/">>) \o <<Cls("S", 1, -1)>>

is_url_only(body) ==
  \/ re_fullmatch(RE_url, str_strip(body), FALSE)
  \/ /\ WordCount(re_sub(RE_url, <<>>, body, FALSE, FALSE)) < 10
     /\ str_contains(body, <<"h","t","t","p">>)

AutoGeneratedPhrases ==
  {<<"a","u","t","o","m","a","t","i","c","a","l","l","y"," ","g","e","n","e","r","a","t","e","d">>, <<"d","o"," ","n","o","t"," ","r","e","p","l","y">>, <<"t","h","i","s"," ","i","s"," ","a","n"," ","a","u","t","o","m","a","t","e","d">>}
is_auto_generated(body) ==
  \E p \in AutoGeneratedPhrases : str_contains(str_lower(body), p)

TestPhrases == {<<"t","e","s","t"," ","f","o","r","w","a","r","d">>, <<"t","e","s","t"," ","r","e","d","i","r","e","c","t">>, <<"t","e","s","t"," ","e","m","a","i","l">>}
is_test_message(body, subject) ==
  \E p \in TestPhrases : str_contains(str_lower(body \o <<" ">> \o subject), p)

RE_phone == <<Cls("d", 3, 3), Cls("sep", 0, 1), Cls("d", 3, 3), Cls("sep", 0, 1), Cls("d", 4, 4)>>
RE_email == <<Cls("S", 1, -1), Lit("@"), Cls("S", 1, -1)>>
is_signature_only(body) ==
  /\ WordCount(body) < 10
  /\ (re_search(RE_phone, body, FALSE) \/ re_search(RE_email, body, FALSE))

ConfirmationPatterns ==
  { LitStr(<<"c","o","n","f","i","r","m","a","t","i","o","n">>) \o Sp0 \o <<Lit("#")>>,
    LitStr(<<"o","r","d","e","r">>) \o Sp0 \o <<Lit("#")>>,
    LitStr(<<"t","r","a","c","k","i","n","g">>) \o Sp0 \o LitStr(<<"n","u","m","b","e","r">>),
    LitStr(<<"f","l","i","g","h","t">>) \o Sp0 \o <<Lit("#")>> }
is_confirmation_email(body) == \E p \in ConfirmationPatterns : re_search(p, body, TRUE)

RE_image_ref == LitStr(<<"[","i","m","a","g","e",":">>) \o <<Cls("dot", 0, -1), Lit("]")>>
has_only_image_refs(body) ==
  /\ (str_contains(str_lower(body), <<"[","i","m","a","g","e",":">>) \/ str_contains(str_lower(body), <<"i","m","a","g","e",".","p","n","g">>))
  /\ WordCount(re_sub(RE_image_ref, <<>>, body, TRUE, TRUE)) < 5

CodePatterns ==
  { <<Lit("{"), Cls("sn", 0, -1), Cls("w-", 1, -1)>> \o Sp0 \o <<Lit(":")>> \o Sp0
       \o <<Cls("w-", 1, -1)>> \o Sp0 \o <<Lit(";")>>,
    <<Lit("#"), Cls("w-", 1, -1)>> \o Sp0 \o <<Lit("{")>>,
    <<Lit("."), Cls("w-", 1, -1)>> \o Sp0 \o <<Lit("{")>>,
    LitStr(<<"f","u","n","c","t","i","o","n">>) \o Sp0 \o <<Lit("(")>>,
    LitStr(<<"v","a","r">>) \o Sp1 \o W1 \o Sp0 \o <<Lit("=")>>,
    LitStr(<<"c","o","n","s","t">>) \o Sp1 \o W1 \o Sp0 \o <<Lit("=")>> }
has_code_or_css(body) == \E p \in CodePatterns : re_search(p, body, FALSE)

MeetingPatterns ==
  { LitStr(<<"j","o","i","n">>) \o Sp1 \o LitStr(<<"z","o","o","m">>) \o Sp1 \o LitStr(<<"m","e","e","t","i","n","g">>),
    LitStr(<<"m","e","e","t","i","n","g">>) \o Sp1 \o LitStr(<<"i","d",":">>) \o Sp0 \o D1,
    LitStr(<<"p","a","s","s","c","o","d","e",":">>) \o Sp0 \o D1,
    LitStr(<<"d","i","a","l">>) \o Sp1 \o LitStr(<<"b","y">>) \o Sp1 \o LitStr(<<"y","o","u","r">>) \o Sp1 \o LitStr(<<"l","o","c","a","t","i","o","n">>),
    LitStr(<<"j","o","i","n">>) \o Sp1 \o LitStr(<<"t","e","a","m","s">>) \o Sp1 \o LitStr(<<"m","e","e","t","i","n","g">>),
    LitStr(<<"g","o","o","g","l","e">>) \o Sp1 \o LitStr(<<"m","e","e","t">>),
    LitStr(<<"o","n","e">>) \o Sp1 \o LitStr(<<"t","a","p">>) \o Sp1 \o LitStr(<<"m","o","b","i","l","e">>) }
is_meeting_invite(body) == \E p \in MeetingPatterns : re_search(p, body, TRUE)

\* the patterns anchored with ^ (re.MULTILINE), and the unanchored ones
HeaderLinePatterns ==
  { LitStr(<<"F","r","o","m",":">>) \o Sp1 \o <<Cls("S", 1, -1)>>,
    LitStr(<<"S","e","n","t",":">>) \o Sp1 \o W1 \o <<Lit(",")>>,
    LitStr(<<"T","o",":">>) \o Sp1 \o <<Cls("S", 1, -1)>>,
    LitStr(<<"S","u","b","j","e","c","t",":">>) \o Sp1 \o <<Cls("dot", 1, -1)>> }
HeaderAnywherePatterns ==
  { LitStr(<<"e","m","a","i","l"," ","o","r","i","g","i","n","a","t","e","d"," ","f","r","o","m"," ","a","n"," ","e","x","t","e","r","n","a","l"," ","s","e","n","d","e","r">>),
    <<Rep("_", 32, 32)>> }
has_email_headers(body) ==
  \/ \E p \in HeaderLinePatterns : re_search_bol(p, body, TRUE)
  \/ \E p \in HeaderAnywherePatterns : re_search(p, body, TRUE)

FormPatterns ==
  { LitStr(<<"a","c","c","o","u","n","t",":">>) \o Sp0 \o W1,
    LitStr(<<"u","s","e","r","n","a","m","e",":">>) \o Sp0 \o W1,
    LitStr(<<"b","a","l","a","n","c","e",":">>) \o Sp0 \o <<Lit("$")>> \o D1,
    LitStr(<<"u","s","e","r">>) \o Sp1 \o LitStr(<<"i","d",":">>) \o Sp0 \o D1,
    LitStr(<<"p","a","s","s","w","o","r","d",":">>) \o Sp0 \o W1 }
has_form_data(body) ==
  Cardinality({p \in FormPatterns : re_search(p, body, TRUE)}) >= 2

is_meaningful(body, subject) ==
  /\ str_strip(body) # <<>>
  /\ ~re_fullmatch(<<Cls("nws", 1, -1)>>, str_strip(body), FALSE)
  /\ ~str_contains(body, <<"r","e","a","c","t","e","d"," ","v","i","a"," ","G","m","a","i","l">>)
  /\ str_lower(str_strip(body)) # <<"u","n","s","u","b","s","c","r","i","b","e">>
  /\ ~is_url_only(body)
  /\ ~is_auto_generated(body)
  /\ ~is_test_message(body, subject)
  /\ ~is_signature_only(body)
  /\ ~is_confirmation_email(body)
  /\ ~has_only_image_refs(body)
  /\ ~has_code_or_css(body)
  /\ ~is_meeting_invite(body)
  /\ ~has_email_headers(body)
  /\ ~has_form_data(body)

(***************************************************************************)
(* lib/email_cleaner.py: the synthetic instruction.                        *)
(***************************************************************************)
INTENT_UNSUBSCRIBE == <<"W","r","i","t","e"," ","a","n"," ","e","m","a","i","l"," ","a","s","k","i","n","g"," ","t","o"," ","u","n","s","u","b","s","c","r","i","b","e",".">>
INTENT_REPLY       == <<"W","r","i","t","e"," ","a","n"," ","e","m","a","i","l"," ","r","e","s","p","o","n","d","i","n","g"," ","t","o"," ","a"," ","m","e","s","s","a","g","e",".">>
INTENT_FORWARD     == <<"W","r","i","t","e"," ","a"," ","f","o","r","w","a","r","d","e","d"," ","m","e","s","s","a","g","e",".">>
INTENT_BRIEF       == <<"W","r","i","t","e"," ","a"," ","b","r","i","e","f"," ","o","n","e","-","l","i","n","e"," ","e","m","a","i","l"," ","i","n"," ","y","o","u","r"," ","t","o","n","e",".">>
INTENT_GENERIC     == <<"W","r","i","t","e"," ","a","n"," ","e","m","a","i","l"," ","i","n"," ","y","o","u","r"," ","t","o","n","e",".">>
SyntheticIntents ==
  {INTENT_UNSUBSCRIBE, INTENT_REPLY, INTENT_FORWARD, INTENT_BRIEF, INTENT_GENERIC}

\* mutant: the word count is tested before the subject prefixes
intent_WordCountFirst(subject, body) ==
  LET s == str_strip(str_lower(subject))
      b == str_strip(str_lower(body))
  IN  IF str_contains(s, <<"u","n","s","u","b","s","c","r","i","b","e">>) \/ b = <<"u","n","s","u","b","s","c","r","i","b","e">> THEN INTENT_UNSUBSCRIBE
      ELSE IF WordCount(body) <= 4 THEN INTENT_BRIEF
      ELSE IF str_startswith(s, <<"r","e",":">>) THEN INTENT_REPLY
      ELSE IF str_startswith(s, <<"f","w","d",":">>) \/ str_startswith(s, <<"f","w",":">>) THEN INTENT_FORWARD
      ELSE INTENT_GENERIC

intent_from_subject_or_body(subject, body) ==
  LET s == str_strip(str_lower(subject))
      b == str_strip(str_lower(body))
  IN  IF str_contains(s, <<"u","n","s","u","b","s","c","r","i","b","e">>) \/ b = <<"u","n","s","u","b","s","c","r","i","b","e">> THEN INTENT_UNSUBSCRIBE
      ELSE IF str_startswith(s, <<"r","e",":">>) THEN INTENT_REPLY
      ELSE IF str_startswith(s, <<"f","w","d",":">>) \/ str_startswith(s, <<"f","w",":">>) THEN INTENT_FORWARD
      ELSE IF WordCount(body) <= 4 THEN INTENT_BRIEF
      ELSE INTENT_GENERIC

(***************************************************************************)
(* The messages a mailbox is drawn from.                                   *)
(***************************************************************************)
Part(ctype, disp, payload, charset) ==
  [ctype |-> ctype, disp |-> disp, payload |-> payload, charset |-> charset]
\* a single-part text/plain message
Single(msgid, from, subject, inreply, text) ==
  [msgid |-> msgid, from |-> from, subject |-> subject, inreply |-> inreply,
   multipart |-> FALSE, parts |-> <<Part("text/plain", <<>>, text, "utf-8")>>]

SELF_FROM  == <<"M","e"," ","<","M","E","@","x",".","i","o",">">>
BOB_FROM == <<"B","o","b"," ","<","b","o","b","@","y",".","i","o",">">>

Messages ==
  << \* 1: received, the parent of message 2
     Single(<<"<","a",">">>, BOB_FROM, <<"F","r","i","d","a","y">>, <<>>, <<"A","r","e"," ","y","o","u"," ","f","r","e","e"," ","F","r","i","d","a","y","?">>),
     \* 2: sent, a reply to <a> that quotes it
     Single(<<"<","b",">">>, SELF_FROM, <<"R","e",":"," ","F","r","i","d","a","y">>, <<" ","<","a",">">>,
            <<"Y","e","s",","," ","F","r","i","d","a","y"," ","w","o","r","k","s",".","\n",">"," ","A","r","e"," ","y","o","u"," ","f","r","e","e"," ","F","r","i","d","a","y","?">>),
     \* 3: sent, the identifier of message 2 again, no parent
     Single(<<" ","<","b",">"," ">>, SELF_FROM, <<"R","e",":"," ","P","r","o","j","e","c","t">>, <<>>, <<"S","o","u","n","d","s"," ","g","o","o","d"," ","t","o"," ","m","e",","," ","t","h","a","n","k","s"," ","B","o","b">>),
     \* 4: sent, no Message-ID, no parent, a signature
     Single(<<>>, SELF_FROM, <<"l","u","n","c","h">>, <<>>, <<"s","e","e"," ","y","o","u"," ","a","t"," ","t","h","e"," ","g","y","m"," ","t","o","d","a","y","\n","-","-","\n","M","e">>),
     \* 5: received, no Message-ID, an attachment and a markup part
     [msgid |-> <<>>, from |-> BOB_FROM, subject |-> <<"h","e","l","l","o">>, inreply |-> <<>>,
      multipart |-> TRUE,
      parts |-> << Part("multipart/mixed", <<>>, None, ""),
                   Part("text/plain", <<"a","t","t","a","c","h","m","e","n","t",";"," ","f","i","l","e","n","a","m","e","=","a",".","t","x","t">>, <<"s","e","c","r","e","t">>, "utf-8"),
                   Part("text/html", <<>>, <<"<","p",">","h","e","l","l","o"," ","<","b",">","t","h","e","r","e","<","/","b",">","<","/","p",">">>, "") >>],
     \* 6: sent, a reply to the sent message <b>
     Single(<<"<","c",">">>, SELF_FROM, <<"F","w","d",":"," ","n","o","t","e","s">>, <<"<","b",">">>, <<"o","k"," ","t","h","a","n","k","s">>),
     \* 7: received, identifier <a>, rejected by the classifier (URL only)
     Single(<<"<","a",">">>, BOB_FROM, <<"l","i","n","k">>, <<>>, <<"h","t","t","p",":","/","/","y",".","i","o","/","x">>),
     \* 8: received, identifier <a> again with another body
     Single(<<"<","a",">">>, BOB_FROM, <<"F","r","i","d","a","y">>, <<>>, <<"O","r"," ","i","s"," ","M","o","n","d","a","y"," ","b","e","t","t","e","r","?">>),
     \* 9: sent, a reply to <z>, which no meaningful message carries
     Single(<<"<","d",">">>, SELF_FROM, <<"h","i">>, <<"<","z",">">>, <<"f","i","n","e"," ","b","y"," ","m","e">>),
     \* 10: sent, no Message-ID
     Single(<<>>, SELF_FROM, <<" ","R","E",":"," ","U","n","s","u","b","s","c","r","i","b","e"," ","m","e">>, <<>>, <<"p","l","e","a","s","e"," ","t","a","k","e"," ","m","e"," ","o","f","f"," ","t","h","i","s"," ","l","i","s","t">>),
     \* 11: sent, identifier <d>, rejected by the classifier (signature only)
     Single(<<"<","d",">">>, SELF_FROM, <<"R","e",":"," ","c","a","l","l">>, <<"<","a",">">>, <<"M","e","\n","5","5","5","-","1","2","3","-","4","5","6","7">>),
     \* 12: sent, declares a character set Python does not know
     [msgid |-> <<"<","e",">">>, from |-> SELF_FROM, subject |-> <<"h","i">>, inreply |-> <<>>,
      multipart |-> FALSE,
      parts |-> <<Part("text/plain", <<>>, <<"h","e","l","l","o">>, "x-unknown")>>],
     \* 13: sent, identifier <c>, no parent
     Single(<<"<","c",">">>, SELF_FROM, <<"F","W",":"," ","a","g","e","n","d","a">>, <<>>, <<"h","e","r","e"," ","i","s"," ","t","h","e"," ","a","g","e","n","d","a"," ","f","o","r"," ","o","u","r"," ","c","a","l","l">>),
     \* 14: received, identifier <z>, nothing left of its body after sanitizing
     Single(<<"<","z",">">>, BOB_FROM, <<"p","i","n","g">>, <<>>, <<"S","e","n","t"," ","f","r","o","m"," ","m","y"," ","i","P","h","o","n","e">>) >>

NMsgs == Len(Messages)

\* str(k)
RECURSIVE Decimal(_)
Decimal(k) ==
  IF k < 10 THEN <<DigitSeq[k + 1]>>
  ELSE Decimal(k \div 10) \o <<DigitSeq[(k % 10) + 1]>>

\* A long mailbox is message 1 followed by sent messages of this shape: every
\* third one answers <a>, the others answer nothing.
BulkMessage(k) ==
  Single(<<"<","m">> \o Decimal(k) \o <<">">>, SELF_FROM, <<"n","o","t","e">>,
         IF k % 3 = 0 THEN <<"<","a",">">> ELSE <<>>,
         <<"t","h","i","s"," ","i","s"," ","m","y"," ","n","o","t","e"," ","n","u","m","b","e","r"," ">> \o Decimal(k))
BulkMessages == [k \in 1..MaxBulk |-> BulkMessage(k)]

\* A request whose text is one of the generic phrasings, and the answer to it
RequestMessages ==
  << Single(<<"<","g",">">>, BOB_FROM, <<"r","e","q","u","e","s","t">>, <<>>, <<"W","r","i","t","e"," ","a","n"," ","e","m","a","i","l"," ","i","n"," ","y","o","u","r"," ","t","o","n","e",".">>),
     Single(<<"<","r",">">>, SELF_FROM, <<"R","e",":"," ","r","e","q","u","e","s","t">>, <<"<","g",">">>,
            <<"S","u","r","e",","," ","h","e","r","e"," ","i","s"," ","t","h","e"," ","e","m","a","i","l"," ","y","o","u"," ","a","s","k","e","d"," ","f","o","r"," ","t","h","i","s"," ","m","o","r","n","i","n","g",".">>) >>

\* every message a mailbox of the model can hold, by number
Corpus == Messages \o BulkMessages \o RequestMessages

\* the addresses process_mbox is called with
UserEmails == {<<"m","e","@","X",".","i","o">>, <<"b","o","b","@","y",".","i","o">>}

(***************************************************************************)
(* process_mbox, lines 316-325: what the loop body computes for a message  *)
(* before it files it.  These are pure functions of the message, so the    *)
(* model evaluates them once for every message of Messages (the variable   *)
(* cleaned, set in Init) and the loop reads the result.                    *)
(***************************************************************************)
CleanBodyOf(msg) == sanitize(extract_clean_text(msg))
Cleaned(msg) ==
  IF extract_raises(msg) THEN [raised |-> TRUE, body |-> <<>>, keep |-> FALSE]
  ELSE [raised |-> FALSE, body |-> CleanBodyOf(msg),
        keep |-> is_meaningful(CleanBodyOf(msg), msg.subject)]
CleanTable == [i \in 1..Len(Corpus) |-> Cleaned(Corpus[i])]

(***************************************************************************)
(* State.                                                                  *)
(***************************************************************************)
VARIABLES
  \* process_mbox
  box,              \* the mailbox: the numbers of its messages, in order
  user_email,       \* the address process_mbox is called with
  pc,               \* where process_mbox is: "scan", "pair", "done", "raised"
  pos,              \* how many messages the first loop has consumed
  outbound,         \* the list outbound
  inbound,          \* the dict inbound: identifier -> body
  unique_outbound,  \* the values of the deduplicating dict, in its order
  dataset,          \* the list dataset
  cleaned,          \* message number -> [raised, body, keep], see CleanTable
  \* split_dataset
  sd_examples,      \* the argument examples
  sd_ratio,         \* the argument val_ratio
  sd_seed,          \* the argument seed
  rng,              \* the state of the generator of module random
  draws,            \* how many numbers other code has drawn from it
  sd_results,       \* what each call returned: [train, val], and rng before it
  \* enhance_generic_prompts
  en_examples,      \* the argument examples
  batch_size,       \* PROMPT_ENHANCEMENT_BATCH_SIZE as configured
  en_pc,            \* "identify", "batches", "done", "raised"
  generic_indices,  \* the list generic_indices (positions from 1)
  generic_bodies,   \* the list generic_bodies
  refined_prompts,  \* the list refined_prompts
  calls,            \* the batch sent with each remote call so far
  replies,          \* the prompts read off the answer to each call that returned
  en_result,        \* what the function returned, None before
  \* main (prepare_data.py)
  pl_pc,            \* "start", "extract", "enhance", "split", "done", "failed"
  pl_exists,        \* Path(mbox_path).exists()
  enhanced_dataset, \* the local enhanced_dataset, None before
  api_calls,        \* the local api_calls
  training_file,    \* what this run wrote to TRAINING_FILE, None before
  validation_file,  \* what this run wrote to VALIDATION_FILE, None before
  \* one text function applied to one input
  tx_pc,            \* which function is applied, "done" after it
  tx_input,         \* its argument
  tx_output,        \* what the applications returned, in order
  \* monitor_job
  mon_pc,           \* "retrieve", "check", "returned", "raised", "interrupted"
  remote_job,       \* the job as the service holds it
  job,              \* the local job: what the last poll retrieved
  status,           \* the local status
  last_status,      \* the local last_status
  shown,            \* the statuses printed at line 104, in order
  changes,          \* how often the service has moved the job on
  model_info        \* the content of MODEL_INFO_FILE, NoInfo without the file

mboxVars == <<box, user_email, pc, pos, outbound, inbound, unique_outbound, dataset, cleaned>>
splitVars == <<sd_examples, sd_ratio, sd_seed, rng, draws, sd_results>>
enhVars == <<en_examples, batch_size, en_pc, generic_indices, generic_bodies,
             refined_prompts, calls, replies, en_result>>
pipeVars == <<pl_pc, pl_exists, enhanced_dataset, api_calls, training_file, validation_file>>
textVars == <<tx_pc, tx_input, tx_output>>
monVars == <<mon_pc, remote_job, changes, job, status, last_status, shown, model_info>>
vars == <<mboxVars, splitVars, enhVars, pipeVars, textVars, monVars>>
\* what the actions of one entry point leave alone
notMbox    == <<splitVars, enhVars, pipeVars, textVars, monVars>>
notSplit   == <<mboxVars, enhVars, pipeVars, textVars, monVars>>
notEnhance == <<mboxVars, splitVars, pipeVars, textVars, monVars>>
notText    == <<mboxVars, splitVars, enhVars, pipeVars, monVars>>
notMonitor == <<mboxVars, splitVars, enhVars, pipeVars, textVars>>

(***************************************************************************)
(* process_mbox (lib/email_cleaner.py, lines 299-363).                     *)
(***************************************************************************)
\* line 320 raises; lines 320-323: body; line 325: is_meaningful(body, subject)
Raises(i)     == cleaned[i].raised
CleanBody(i)  == cleaned[i].body
\* mutant: the classifier is not consulted
Meaningful_All(i) == TRUE
\* mutant: only an empty body is rejected
Meaningful_NonEmpty(i) == cleaned[i].body # <<>>
Meaningful(i) == cleaned[i].keep
\* mutant: a message without a Message-ID is keyed by its number
MsgId_PerMessage(i) ==
  IF Corpus[i].msgid = <<>> THEN Decimal(i) ELSE str_strip(Corpus[i].msgid)
\* lines 316, 332: the stripped headers
MsgId(i)      == str_strip(Corpus[i].msgid)
InReplyTo(i)  == str_strip(Corpus[i].inreply)
\* mutant: the address is compared as it was typed
IsSent_CaseSensitive(i, email) == str_contains(Corpus[i].from, email)
\* line 329: user_email.lower() in from_addr
IsSent(i, email) == str_contains(str_lower(Corpus[i].from), str_lower(email))

Boxes == UNION {[1..n -> 1..NMsgs] : n \in 0..MaxBox}

\* an example {"messages": [{"role": "user", ...}, {"role": "assistant", ...}]}
Message(role, content) == [role |-> role, content |-> content]
Example(instruction, response) ==
  [messages |-> <<Message("user", instruction), Message("assistant", response)>>]

\* mutant: the Message-ID is filed as it stands in the header
OutboundEntry_RawId(i) ==
  [msgid |-> Corpus[i].msgid, inreply |-> InReplyTo(i),
   subject |-> Corpus[i].subject, body |-> CleanBody(i)]
\* lines 330-335: the entry appended to outbound
OutboundEntry(i) ==
  [msgid |-> MsgId(i), inreply |-> InReplyTo(i),
   subject |-> Corpus[i].subject, body |-> CleanBody(i)]

\* inbound[msgid] = body
DictSet(d, key, value) ==
  [x \in (DOMAIN d) \cup {key} |-> IF x = key THEN value ELSE d[x]]

\* mutant: a dict that moves an overwritten key to the end
RECURSIVE DictValues_MoveToEnd(_, _)
DictValues_MoveToEnd(entries, acc) ==
  IF entries = <<>> THEN acc
  ELSE LET o == Head(entries)
       IN  DictValues_MoveToEnd(Tail(entries),
             Append(SelectSeq(acc, LAMBDA e : e.msgid # o.msgid), o))

\* mutant: the first message of an identifier wins
RECURSIVE DictValues_KeepFirst(_, _)
DictValues_KeepFirst(entries, acc) ==
  IF entries = <<>> THEN acc
  ELSE LET o == Head(entries)
       IN  IF \E j \in 1..Len(acc) : acc[j].msgid = o.msgid
           THEN DictValues_KeepFirst(Tail(entries), acc)
           ELSE DictValues_KeepFirst(Tail(entries), Append(acc, o))

\* line 340: {o["msgid"]: o for o in outbound}.values().  A dict keeps a key
\* at the position of its first insertion and the value of its last one.
RECURSIVE DictValues(_, _)
DictValues(entries, acc) ==
  IF entries = <<>> THEN acc
  ELSE LET o == Head(entries)
           at == {j \in 1..Len(acc) : acc[j].msgid = o.msgid}
       IN  IF at = {} THEN DictValues(Tail(entries), Append(acc, o))
           ELSE DictValues(Tail(entries), [acc EXCEPT ![CHOOSE j \in at : TRUE] = o])
\* mutant: no deduplication
UniqueOutbound_NoDedup(entries) == entries
UniqueOutbound(entries) == DictValues(entries, <<>>)

\* mutant: the test for an empty In-Reply-To is missing
Resolves_NoEmptyTest(msg, lookup) == msg.inreply \in DOMAIN lookup
\* line 345: msg["inreply"] and msg["inreply"] in inbound
Resolves(msg, lookup) == msg.inreply # <<>> /\ msg.inreply \in DOMAIN lookup

\* mutant: the two roles of a reply example are exchanged
BuildExample_Swapped(msg, lookup) ==
  IF msg.inreply # <<>> /\ msg.inreply \in DOMAIN lookup
  THEN Example(msg.body, lookup[msg.inreply])
  ELSE Example(intent_from_subject_or_body(msg.subject, msg.body), msg.body)
\* lines 345-361: the example built for one unique outbound message
BuildExample(msg, lookup) ==
  IF Resolves(msg, lookup)
  THEN Example(lookup[msg.inreply], msg.body)
  ELSE Example(intent_from_subject_or_body(msg.subject, msg.body), msg.body)

InitMbox ==
  /\ cleaned = CleanTable
  /\ box \in Boxes
  /\ user_email \in UserEmails
  /\ pc = "scan"
  /\ pos = 0
  /\ outbound = <<>>
  /\ inbound = <<>>
  /\ unique_outbound = <<>>
  /\ dataset = <<>>

\* line 320: extract_clean_text raises, and nothing in process_mbox catches
ScanRaise ==
  /\ pc = "scan" /\ pos < Len(box)
  /\ Raises(box[pos + 1])
  /\ pc' = "raised"
  /\ UNCHANGED notMbox
  /\ UNCHANGED <<cleaned, box, user_email, pos, outbound, inbound, unique_outbound, dataset>>

\* lines 325-326: the message is not meaningful
ScanSkip ==
  /\ pc = "scan" /\ pos < Len(box)
  /\ ~Raises(box[pos + 1]) /\ ~Meaningful(box[pos + 1])
  /\ pos' = pos + 1
  /\ UNCHANGED notMbox
  /\ UNCHANGED <<cleaned, box, user_email, pc, outbound, inbound, unique_outbound, dataset>>

\* lines 329-335: a meaningful message sent by the user
ScanOutbound ==
  /\ pc = "scan" /\ pos < Len(box)
  /\ ~Raises(box[pos + 1]) /\ Meaningful(box[pos + 1])
  /\ IsSent(box[pos + 1], user_email)
  /\ outbound' = Append(outbound, OutboundEntry(box[pos + 1]))
  /\ pos' = pos + 1
  /\ UNCHANGED notMbox
  /\ UNCHANGED <<cleaned, box, user_email, pc, inbound, unique_outbound, dataset>>

\* lines 336-337: a meaningful message of somebody else
ScanInbound ==
  /\ pc = "scan" /\ pos < Len(box)
  /\ ~Raises(box[pos + 1]) /\ Meaningful(box[pos + 1])
  /\ ~IsSent(box[pos + 1], user_email)
  /\ inbound' = DictSet(inbound, MsgId(box[pos + 1]), CleanBody(box[pos + 1]))
  /\ pos' = pos + 1
  /\ UNCHANGED notMbox
  /\ UNCHANGED <<cleaned, box, user_email, pc, outbound, unique_outbound, dataset>>

\* lines 339-342: the first loop is over
Dedupe ==
  /\ pc = "scan" /\ pos = Len(box)
  /\ unique_outbound' = UniqueOutbound(outbound)
  /\ pc' = "pair"
  /\ UNCHANGED notMbox
  /\ UNCHANGED <<cleaned, box, user_email, pos, outbound, inbound, dataset>>

\* lines 344-361: one turn of the second loop
Pair ==
  /\ pc = "pair" /\ Len(dataset) < Len(unique_outbound)
  /\ dataset' = Append(dataset, BuildExample(unique_outbound[Len(dataset) + 1], inbound))
  /\ UNCHANGED notMbox
  /\ UNCHANGED <<cleaned, box, user_email, pc, pos, outbound, inbound, unique_outbound>>

\* line 363
Return ==
  /\ pc = "pair" /\ Len(dataset) = Len(unique_outbound)
  /\ pc' = "done"
  /\ UNCHANGED notMbox
  /\ UNCHANGED <<cleaned, box, user_email, pos, outbound, inbound, unique_outbound, dataset>>

NextMbox ==
  \/ ScanRaise
  \/ ScanSkip
  \/ ScanOutbound
  \/ ScanInbound
  \/ Dedupe
  \/ Pair
  \/ Return

IdleMbox ==
  /\ cleaned = <<>>
  /\ box = <<>>
  /\ user_email = <<>>
  /\ pc = "idle"
  /\ pos = 0
  /\ outbound = <<>>
  /\ inbound = <<>>
  /\ unique_outbound = <<>>
  /\ dataset = <<>>

(***************************************************************************)
(* Binary numerals, most significant bit first: TLC's integers are 32 bits *)
(* wide, a double's significand is 53.                                     *)
(***************************************************************************)
RECURSIVE ToBits(_)
ToBits(n) == IF n = 0 THEN <<>> ELSE Append(ToBits(n \div 2), n % 2)

RECURSIVE FromBits(_)
FromBits(b) ==
  IF b = <<>> THEN 0 ELSE 2 * FromBits(SubSeq(b, 1, Len(b) - 1)) + b[Len(b)]

\* without the leading zeros
Trim(b) ==
  LET ones == {k \in 1..Len(b) : b[k] = 1}
  IN  IF ones = {} THEN <<>> ELSE SubSeq(b, SetMin(ones), Len(b))

\* b + 1
IncBits(b) ==
  LET zeros == {k \in 1..Len(b) : b[k] = 0}
  IN  IF zeros = {} THEN <<1>> \o [k \in 1..Len(b) |-> 0]
      ELSE [k \in 1..Len(b) |->
              IF k < SetMax(zeros) THEN b[k] ELSE IF k = SetMax(zeros) THEN 1 ELSE 0]

\* the same numerals in base 16, which keeps the carry chain short
HexDigits == <<"0","1","2","3","4","5","6","7","8","9","a","b","c","d","e","f">>
HexValue(c) == (CHOOSE k \in 1..16 : HexDigits[k] = c) - 1
HexNumeral(h) == [k \in 1..Len(h) |-> HexValue(h[k])]

BitsOf(d) ==
  [k \in 1..(4 * Len(d)) |-> (d[((k - 1) \div 4) + 1] \div 2^(3 - ((k - 1) % 4))) % 2]

DigitsOf(b) ==
  LET n      == (Len(b) + 3) \div 4
      pad    == 4 * n - Len(b)
      bit(k) == IF k <= pad THEN 0 ELSE b[k - pad]
  IN  [j \in 1..n |->
         8 * bit(4 * j - 3) + 4 * bit(4 * j - 2) + 2 * bit(4 * j - 1) + bit(4 * j)]

RECURSIVE ToDigits(_)
ToDigits(n) == IF n = 0 THEN <<>> ELSE Append(ToDigits(n \div 16), n % 16)

\* d * n + carry, for a small n
RECURSIVE MulDigits(_, _, _)
MulDigits(d, n, carry) ==
  IF d = <<>> THEN ToDigits(carry)
  ELSE LET t == d[Len(d)] * n + carry
       IN  Append(MulDigits(SubSeq(d, 1, Len(d) - 1), n, t \div 16), t % 16)

\* b * n
MulBits(b, n) == Trim(BitsOf(MulDigits(DigitsOf(b), n, 0)))

(***************************************************************************)
(* Python floats: a double is mant * 2^exp, mant of at most 53 bits.       *)
(***************************************************************************)
SignificandBits == 53

\* the nearest double to bits * 2^exp, ties to the even significand
RoundToDouble(bits, exp) ==
  LET b == Trim(bits)
      r == Len(b) - SignificandBits
  IN  IF r <= 0 THEN [mant |-> b, exp |-> exp]
      ELSE LET keep   == SubSeq(b, 1, SignificandBits)
               guard  == b[SignificandBits + 1]
               sticky == \E k \in (SignificandBits + 2)..Len(b) : b[k] = 1
               up     == guard = 1 /\ (sticky \/ keep[SignificandBits] = 1)
               m      == IF up THEN IncBits(keep) ELSE keep
           IN  IF Len(m) > SignificandBits
               THEN [mant |-> SubSeq(m, 1, SignificandBits), exp |-> exp + r + 1]
               ELSE [mant |-> m, exp |-> exp + r]

\* total * val_ratio: float(total) is exact, the product is rounded once
int_times_float(total, x) == RoundToDouble(MulBits(x.mant, total), x.exp)

\* int(x), for x >= 0: the bits left of the binary point
int_of_float(x) ==
  IF x.exp >= 0 THEN FromBits(x.mant) * 2^(x.exp)
  ELSE IF Len(x.mant) <= -x.exp THEN 0
  ELSE FromBits(SubSeq(x.mant, 1, Len(x.mant) + x.exp))

\* the float literal num/den, whose float.hex() is 0x<hex[1]>.<hex[2..14]>p<p>
FloatLiteral(num, den, hex, p) ==
  [num |-> num, den |-> den, mant |-> Trim(BitsOf(HexNumeral(hex))), exp |-> p - 52]

\* lib/config.py, line 11: 0.1
VALIDATION_SPLIT_RATIO == FloatLiteral(1, 10, <<"1","9","9","9","9","9","9","9","9","9","9","9","9","a">>, -4)

\* the ratios split_dataset is called with: 0.0, 0.1, 0.25, 0.5, 0.58, 0.6, 1.0
Ratios ==
  { FloatLiteral(0, 1, <<"0","0","0","0","0","0","0","0","0","0","0","0","0","0">>, 0),
    VALIDATION_SPLIT_RATIO,
    FloatLiteral(1, 4, <<"1","0","0","0","0","0","0","0","0","0","0","0","0","0">>, -2),
    FloatLiteral(1, 2, <<"1","0","0","0","0","0","0","0","0","0","0","0","0","0">>, -1),
    FloatLiteral(29, 50, <<"1","2","8","f","5","c","2","8","f","5","c","2","8","f">>, -1),
    FloatLiteral(3, 5, <<"1","3","3","3","3","3","3","3","3","3","3","3","3","3">>, -1),
    FloatLiteral(1, 1, <<"1","0","0","0","0","0","0","0","0","0","0","0","0","0">>, 0) }

(***************************************************************************)
(* Module random: one generator shared by the whole process.  The          *)
(* generator stands in for the Mersenne Twister with a 16-bit linear       *)
(* congruential one; seed, getrandbits, _randbelow and shuffle are the     *)
(* library's algorithms over it.                                           *)
(***************************************************************************)
RngBits == 16
RngNext(st) == (25173 * st + 13849) % 2^RngBits

\* mutant: the generator keeps its state
random_seed_Keep(st, seed) == st
\* random.seed(seed): the state is a function of the seed alone
random_seed(st, seed) == seed % 2^RngBits

\* getrandbits(k): the top k bits of the next output
getrandbits(st, k) ==
  [value |-> RngNext(st) \div 2^(RngBits - k), rng |-> RngNext(st)]

\* _randbelow(n): draw n.bit_length() bits until the draw is below n
RECURSIVE randbelow(_, _)
randbelow(st, n) ==
  LET g == getrandbits(st, Len(ToBits(n)))
  IN  IF g.value < n THEN g ELSE randbelow(g.rng, n)

\* mutant: the second element is not written back
Swap_Overwrite(x, a, b) == [x EXCEPT ![a] = x[b]]
\* x[i], x[j] = x[j], x[i]
Swap(x, a, b) == [x EXCEPT ![a] = x[b], ![b] = x[a]]

\* for i in reversed(range(1, len(x))): j = randbelow(i + 1); swap x[i], x[j]
\* the turns i = hi down to lo of the loop, cut in halves so that the
\* evaluation stays shallow (a list of fewer than two items has no turn)
RECURSIVE shuffle_turns(_, _, _, _)
shuffle_turns(x, st, hi, lo) ==
  IF hi < lo \/ Len(x) < 2 THEN [list |-> x, rng |-> st]
  ELSE IF hi = lo
  THEN LET g == randbelow(st, hi + 1)
       IN  [list |-> Swap(x, hi + 1, g.value + 1), rng |-> g.rng]
  ELSE LET mid   == (hi + lo) \div 2
           upper == shuffle_turns(x, st, hi, mid + 1)
       IN  shuffle_turns(upper.list, upper.rng, mid, lo)

random_shuffle(x, st) == shuffle_turns(x, st, Len(x) - 1, 1)

(***************************************************************************)
(* split_dataset (prepare_data.py, lines 71-95; ui/shared.py, lines        *)
(* 125-147, the same body).                                                *)
(***************************************************************************)
\* x[lo:hi] for 0 <= lo, 0 <= hi
Slice(x, lo, hi) == SubSeq(x, lo + 1, IF hi < Len(x) THEN hi ELSE Len(x))

\* st is the state of the shared generator when the call begins
split_dataset(examples, val_ratio, seed, st) ==
  LET sh        == random_shuffle(examples, random_seed(st, seed))
      shuffled  == sh.list
      total     == Len(shuffled)
      val_count == int_of_float(int_times_float(total, val_ratio))
  IN  [train |-> Slice(shuffled, val_count, total),
       val   |-> Slice(shuffled, 0, val_count),
       rng   |-> sh.rng]

\* n examples, numbered 0..m-1 in turn: equal numbers are equal examples
ExampleList(n, m) == [i \in 1..n |-> (i - 1) % m]
SplitLengths == (0..MaxSplit) \cup {10, 20, 50}
SplitInputs == {ExampleList(n, m) : n \in SplitLengths, m \in {2, 64}}
Seeds == {42, 7}
RngStates == {0, 12345}

InitSplit ==
  /\ sd_examples \in SplitInputs
  /\ sd_ratio \in Ratios
  /\ sd_seed \in Seeds
  /\ rng \in RngStates
  /\ draws = 0
  /\ sd_results = <<>>

IdleSplit ==
  /\ sd_examples = <<>>
  /\ sd_ratio = VALIDATION_SPLIT_RATIO
  /\ sd_seed = 42
  /\ rng = 0
  /\ draws = 0
  /\ sd_results = <<>>

\* one call split_dataset(sd_examples, sd_ratio, sd_seed), lines 84-95
SplitCall ==
  /\ Len(sd_results) < MaxCalls
  /\ LET out == split_dataset(sd_examples, sd_ratio, sd_seed, rng)
     IN  /\ sd_results' = Append(sd_results,
                            [train |-> out.train, val |-> out.val, before |-> rng])
         /\ rng' = out.rng
  /\ UNCHANGED <<sd_examples, sd_ratio, sd_seed, draws>>
  /\ UNCHANGED notSplit

\* some other code of the process draws from the shared generator
OtherDraw ==
  /\ draws < MaxDraws
  /\ rng' = RngNext(rng)
  /\ draws' = draws + 1
  /\ UNCHANGED <<sd_examples, sd_ratio, sd_seed, sd_results>>
  /\ UNCHANGED notSplit

NextSplit ==
  \/ SplitCall
  \/ OtherDraw

(***************************************************************************)
(* generate_specific_prompts_batch (lib/prompt_enhancer.py, lines 11-67).  *)
(***************************************************************************)
\* lib/config.py, line 8
PROMPT_ENHANCEMENT_BATCH_SIZE == 10

\* lib/config.py, lines 16-20
GENERIC_PROMPTS ==
  { <<"w","r","i","t","e"," ","a","n"," ","e","m","a","i","l"," ","i","n"," ","y","o","u","r"," ","t","o","n","e">>,
    <<"w","r","i","t","e"," ","a","n"," ","e","m","a","i","l"," ","i","n"," ","y","o","u","r"," ","t","o","n","e",".">>,
    <<"w","r","i","t","e"," ","a","n"," ","e","m","a","i","l"," ","w","i","t","h"," ","y","o","u","r"," ","t","o","n","e">> }

\* lines 54-65: what one line of the answer adds to prompts
PromptsOfLine(raw) ==
  LET line == str_strip(raw)
  IN  IF line = <<>> THEN <<>>
      ELSE IF IsDigit(line[1])
      THEN LET alpha == {i \in 1..Len(line) : IsAlpha(line[i])}
           IN  IF alpha = {} THEN <<>>
               ELSE <<str_strip(SubSeq(line, SetMin(alpha), Len(line)))>>
      ELSE <<line>>

\* lines 52-65: the loop over the lines
RECURSIVE PromptsOfLines(_)
PromptsOfLines(lines) ==
  IF lines = <<>> THEN <<>>
  ELSE PromptsOfLine(Head(lines)) \o PromptsOfLines(Tail(lines))

\* lines 49-67: the prompts read off the answer's content
parse_response(content) == PromptsOfLines(str_split_nl(str_strip(content)))

\* lines 22-67, given the content the remote model answers with
generate_specific_prompts_batch(email_bodies, content) ==
  IF email_bodies = <<>> THEN <<>> ELSE parse_response(content)

(***************************************************************************)
(* The remote model: what it may answer to a batch of n bodies.            *)
(***************************************************************************)
\* "1. Ask 1\n2. Ask 2\n ... n. Ask n"
RECURSIVE NumberedLines(_)
NumberedLines(n) ==
  IF n = 0 THEN <<>>
  ELSE Append(NumberedLines(n - 1), Decimal(n) \o <<"."," ","A","s","k"," ">> \o Decimal(n))

NumberedAnswer(n) == str_join_nl(NumberedLines(n))

\* blank lines, a numbered line without a letter, a line without a number
UntidyAnswer == <<"\n","1",")"," ","A","s","k"," ","a","b","o","u","t"," ","l","u","n","c","h","\n","\n","2","."," ","2","0","2","4","\n"," "," ","S","u","r","e"," ","t","h","i","n","g"," ","\n">>

Answers(n) ==
  {NumberedAnswer(n - 1), NumberedAnswer(n), NumberedAnswer(n + 1), UntidyAnswer}

(***************************************************************************)
(* enhance_generic_prompts (lib/prompt_enhancer.py, lines 70-144).         *)
(***************************************************************************)
\* next((m["content"] for m in msgs if m["role"] == role), "")
FirstContent(msgs, role) ==
  LET at == {k \in 1..Len(msgs) : msgs[k].role = role}
  IN  IF at = {} THEN <<>> ELSE msgs[SetMin(at)].content

\* mutant: the instruction is looked up as it is written
IsGenericExample_AsWritten(example) ==
  /\ "messages" \in DOMAIN example
  /\ FirstContent(example.messages, "user") \in GENERIC_PROMPTS
\* mutant: every example with messages is taken for generic
IsGenericExample_Always(example) == "messages" \in DOMAIN example
\* lines 87-95: the example counts as generic
IsGenericExample(example) ==
  /\ "messages" \in DOMAIN example
  /\ str_strip(str_lower(FirstContent(example.messages, "user"))) \in GENERIC_PROMPTS

\* lines 83-97: the positions of the generic examples, in order (from 1)
GenericIndices(examples) ==
  SelectSeq([k \in 1..Len(examples) |-> k], LAMBDA k : IsGenericExample(examples[k]))

\* line 97: their assistant texts
GenericBodies(examples) ==
  LET at == GenericIndices(examples)
  IN  [j \in 1..Len(at) |-> FirstContent(examples[at[j]].messages, "assistant")]

\* mutant: the batches are counted rounding down
NumBatches_Floor(count, size) == count \div size
\* line 107
NumBatches(count, size) == (count + size - 1) \div size

\* line 110: generic_bodies[i:i + size]
Batch(bodies, i, size) == Slice(bodies, i, i + size)

\* mutant: a shortfall is not padded
Padded_None(prompts, count) == prompts
\* lines 120-125
Padded(prompts, count) ==
  IF Len(prompts) < count
  THEN prompts \o [k \in 1..(count - Len(prompts)) |-> <<"W","r","i","t","e"," ","a","n"," ","e","m","a","i","l"," ","i","n"," ","y","o","u","r"," ","t","o","n","e",".">>]
  ELSE prompts

\* mutant: the replacement loses the response text
Replaced_NoBody(examples, indices, prompts) ==
  LET n == IF Len(indices) < Len(prompts) THEN Len(indices) ELSE Len(prompts)
  IN  [k \in 1..Len(examples) |->
        IF \E j \in 1..n : indices[j] = k
        THEN Example(prompts[CHOOSE j \in 1..n : indices[j] = k], <<>>)
        ELSE examples[k]]
\* lines 128-139: zip stops at the shorter of the two
Replaced(examples, indices, prompts) ==
  LET n == IF Len(indices) < Len(prompts) THEN Len(indices) ELSE Len(prompts)
  IN  [k \in 1..Len(examples) |->
        IF \E j \in 1..n : indices[j] = k
        THEN Example(prompts[CHOOSE j \in 1..n : indices[j] = k],
                     FirstContent(examples[k].messages, "assistant"))
        ELSE examples[k]]

\* mutant: the replacements are written into the list that was passed
ArgumentAfter_NoCopy(examples, indices, prompts) == Replaced(examples, indices, prompts)
\* lines 128-139, seen from the caller: enhanced_examples is a new list
\* (examples.copy()) and each replacement is a new dict put into it, so the
\* list that was passed and the dicts in it stay as they were
ArgumentAfter(examples, indices, prompts) == examples

\* the examples the function is called with
ReplyBody(k) == <<"r","e","p","l","y"," ">> \o Decimal(k)
InstructionKinds ==
  << INTENT_GENERIC,
     <<" "," ","W","R","I","T","E"," ","A","N"," ","E","M","A","I","L"," ","W","I","T","H"," ","Y","O","U","R"," ","T","O","N","E","\n">>,
     INTENT_REPLY,
     INTENT_UNSUBSCRIBE,
     INTENT_FORWARD,
     INTENT_BRIEF,
     <<"W","r","i","t","e"," ","a","n"," ","e","m","a","i","l"," ","i","n"," ","y","o","u","r"," ","t","o","n","e","!">> >>
\* kind 0 is an example without the key "messages"
ExampleOfKind(kind, k) ==
  IF kind = 0 THEN [prompt |-> ReplyBody(k)]
  ELSE Example(InstructionKinds[kind], ReplyBody(k))
\* every short list of the first three kinds and of kind 0
ShortLists ==
  UNION {[1..n -> 0..3] : n \in 0..MaxExamples}
\* every kind alone, and all of them in one list
KindLists ==
  {<<k>> : k \in 1..Len(InstructionKinds)} \cup {[k \in 1..Len(InstructionKinds) |-> k]}
\* long lists repeat a pattern of kinds
Patterns == { <<1>>, <<1, 3, 2>> }
LongLengths == {10, 11, 21}
LongLists == {[k \in 1..n |-> p[((k - 1) % Len(p)) + 1]] : n \in LongLengths, p \in Patterns}
BatchSizes == {1, 2, PROMPT_ENHANCEMENT_BATCH_SIZE}
EnhanceInputs ==
  (ShortLists \X BatchSizes)
    \cup ((LongLists \cup KindLists) \X {PROMPT_ENHANCEMENT_BATCH_SIZE})

InitEnhance ==
  /\ \E in \in EnhanceInputs :
       /\ en_examples = [k \in 1..Len(in[1]) |-> ExampleOfKind(in[1][k], k)]
       /\ batch_size = in[2]
  /\ en_pc = "identify"
  /\ generic_indices = <<>>
  /\ generic_bodies = <<>>
  /\ refined_prompts = <<>>
  /\ calls = <<>>
  /\ replies = <<>>
  /\ en_result = None

IdleEnhance ==
  /\ en_examples = <<>>
  /\ batch_size = PROMPT_ENHANCEMENT_BATCH_SIZE
  /\ en_pc = "idle"
  /\ generic_indices = <<>>
  /\ generic_bodies = <<>>
  /\ refined_prompts = <<>>
  /\ calls = <<>>
  /\ replies = <<>>
  /\ en_result = None

\* lines 83-103: find the generic examples; return at once when there is none
Identify ==
  /\ en_pc = "identify"
  /\ generic_indices' = GenericIndices(en_examples)
  /\ generic_bodies' = GenericBodies(en_examples)
  /\ IF GenericIndices(en_examples) = <<>>
     THEN /\ en_result' = [examples |-> en_examples, num_api_calls |-> 0]
          /\ en_pc' = "done"
     ELSE /\ en_result' = en_result
          /\ en_pc' = "batches"
  /\ UNCHANGED <<en_examples, batch_size, refined_prompts, calls, replies>>
  /\ UNCHANGED notEnhance

\* lines 109-117: one turn of the loop, the remote model answers
BatchCall ==
  /\ en_pc = "batches"
  /\ Len(calls) * batch_size < Len(generic_bodies)
  /\ LET batch == Batch(generic_bodies, Len(calls) * batch_size, batch_size)
     IN  /\ calls' = Append(calls, batch)
         /\ \E content \in Answers(Len(batch)) :
              LET batch_prompts == generate_specific_prompts_batch(batch, content)
              IN  /\ refined_prompts' = refined_prompts \o batch_prompts
                  /\ replies' = Append(replies, batch_prompts)
  /\ UNCHANGED <<en_examples, batch_size, en_pc, generic_indices, generic_bodies, en_result>>
  /\ UNCHANGED notEnhance

\* line 43 raises (the network, the service): nothing here catches it
BatchRaise ==
  /\ en_pc = "batches"
  /\ Len(calls) * batch_size < Len(generic_bodies)
  /\ calls' = Append(calls, Batch(generic_bodies, Len(calls) * batch_size, batch_size))
  /\ en_pc' = "raised"
  /\ UNCHANGED <<en_examples, batch_size, generic_indices, generic_bodies,
                 refined_prompts, replies, en_result>>
  /\ UNCHANGED notEnhance

\* lines 119-144: the loop is over
Finish ==
  /\ en_pc = "batches"
  /\ Len(calls) * batch_size >= Len(generic_bodies)
  /\ en_result' =
       [examples |-> Replaced(en_examples, generic_indices,
                              Padded(refined_prompts, Len(generic_indices))),
        num_api_calls |-> NumBatches(Len(generic_bodies), batch_size)]
  /\ en_examples' = ArgumentAfter(en_examples, generic_indices,
                                  Padded(refined_prompts, Len(generic_indices)))
  /\ en_pc' = "done"
  /\ UNCHANGED <<batch_size, generic_indices, generic_bodies,
                 refined_prompts, calls, replies>>
  /\ UNCHANGED notEnhance

NextEnhance ==
  \/ Identify
  \/ BatchCall
  \/ BatchRaise
  \/ Finish

(***************************************************************************)
(* write_jsonl (prepare_data.py, lines 98-102).                            *)
(***************************************************************************)
\* json.dumps(..., ensure_ascii=False) of one character of a string
JsonChar(c) ==
  IF c = "\"" THEN <<"\\", "\"">>
  ELSE IF c = "\\" THEN <<"\\", "\\">>
  ELSE IF c = "\n" THEN <<"\\", "n">>
  ELSE IF c = "\t" THEN <<"\\", "t">>
  ELSE <<c>>

\* the characters of a string between its quotes
RECURSIVE JsonChars(_)
JsonChars(s) ==
  IF Len(s) = 0 THEN <<>>
  ELSE IF Len(s) = 1 THEN JsonChar(s[1])
  ELSE LET half == Len(s) \div 2
       IN  JsonChars(SubSeq(s, 1, half)) \o JsonChars(SubSeq(s, half + 1, Len(s)))

JsonString(s) == <<"\"">> \o JsonChars(s) \o <<"\"">>

\* a role is a str too; the model keeps it as one TLA+ string
JsonMessage(m) ==
  <<"{","\"","r","o","l","e","\"",":"," ","\"">> \o <<m.role>> \o <<"\"",","," ","\"","c","o","n","t","e","n","t","\"",":"," ">> \o JsonString(m.content) \o <<"}">>

\* json.dumps(example, ensure_ascii=False) for an example of two messages
json_dumps(example) ==
  <<"{","\"","m","e","s","s","a","g","e","s","\"",":"," ","[">> \o JsonMessage(example.messages[1]) \o <<","," ">>
    \o JsonMessage(example.messages[2]) \o <<"]","}">>

\* lines 100-102: the lines written, in order
write_jsonl(examples) == [k \in 1..Len(examples) |-> json_dumps(examples[k]) \o <<"\n">>]

(***************************************************************************)
(* main (prepare_data.py, lines 105-174); render of ui/prepare_data_ui.py  *)
(* runs the same steps on the uploaded file (lines 55-85).                 *)
(***************************************************************************)
\* lib/config.py, line 12
MIN_TRAINING_EXAMPLES == 10

\* mutant: the minimum is not checked
TooFew_Never(examples) == FALSE
\* line 144
TooFew(examples) == Len(examples) < MIN_TRAINING_EXAMPLES

\* mutant: a failed enhancement keeps what the earlier batches returned
EnhancedOnFailure_Partial(examples, indices, prompts) ==
  Replaced(examples, indices, prompts)
\* lines 155-159: enhanced_dataset = dataset, whatever the call had got
EnhancedOnFailure(examples, indices, prompts) == examples

\* the mailboxes main is run on: the short ones, and long ones
BulkLengths == {9, 10, 11, MaxBulk}
LongBox(n) == <<1>> \o [k \in 1..n |-> NMsgs + k]
RequestBox == LongBox(10) \o <<NMsgs + MaxBulk + 1, NMsgs + MaxBulk + 2>>
LongBoxes == {LongBox(n) : n \in BulkLengths} \cup {LongBox(10) \o <<12>>, RequestBox}
PipelineBoxes == {b \in Boxes : Len(b) <= 2} \cup LongBoxes

InitPipeline ==
  /\ cleaned = CleanTable
  /\ box \in PipelineBoxes
  /\ user_email \in UserEmails
  /\ pc = "idle"
  /\ pos = 0
  /\ outbound = <<>>
  /\ inbound = <<>>
  /\ unique_outbound = <<>>
  /\ dataset = <<>>
  /\ pl_pc = "start"
  /\ pl_exists \in BOOLEAN
  /\ enhanced_dataset = None
  /\ api_calls = 0
  /\ training_file = None
  /\ validation_file = None

\* lines 124-126: the file is not there, sys.exit(1)
FileMissing ==
  /\ pl_pc = "start" /\ ~pl_exists
  /\ pl_pc' = "failed"
  /\ UNCHANGED <<pl_exists, enhanced_dataset, api_calls, training_file, validation_file>>
  /\ UNCHANGED <<mboxVars, splitVars, enhVars, textVars, monVars>>

\* line 135: process_mbox is called
CallProcessMbox ==
  /\ pl_pc = "start" /\ pl_exists
  /\ pl_pc' = "extract"
  /\ pc' = "scan"
  /\ UNCHANGED <<pl_exists, enhanced_dataset, api_calls, training_file, validation_file>>
  /\ UNCHANGED <<cleaned, box, user_email, pos, outbound, inbound, unique_outbound, dataset>>
  /\ UNCHANGED <<splitVars, enhVars, textVars, monVars>>

\* lines 136-138: process_mbox raised, sys.exit(1)
ExtractFailed ==
  /\ pl_pc = "extract" /\ pc = "raised"
  /\ pl_pc' = "failed"
  /\ UNCHANGED <<pl_exists, enhanced_dataset, api_calls, training_file, validation_file>>
  /\ UNCHANGED <<mboxVars, splitVars, enhVars, textVars, monVars>>

\* lines 144-148: too few examples, sys.exit(1)
TooFewExit ==
  /\ pl_pc = "extract" /\ pc = "done"
  /\ TooFew(dataset)
  /\ pl_pc' = "failed"
  /\ UNCHANGED <<pl_exists, enhanced_dataset, api_calls, training_file, validation_file>>
  /\ UNCHANGED <<mboxVars, splitVars, enhVars, textVars, monVars>>

\* line 144 passes: on to line 152
EnoughExamples ==
  /\ pl_pc = "extract" /\ pc = "done"
  /\ ~TooFew(dataset)
  /\ pl_pc' = "enhance"
  /\ UNCHANGED <<pl_exists, enhanced_dataset, api_calls, training_file, validation_file>>
  /\ UNCHANGED <<mboxVars, splitVars, enhVars, textVars, monVars>>

\* line 153 raises (no key is configured): lines 155-159
ClientRaise ==
  /\ pl_pc = "enhance" /\ en_pc = "idle"
  /\ enhanced_dataset' = EnhancedOnFailure(dataset, generic_indices, refined_prompts)
  /\ api_calls' = 0
  /\ pl_pc' = "split"
  /\ UNCHANGED <<pl_exists, training_file, validation_file>>
  /\ UNCHANGED <<mboxVars, splitVars, enhVars, textVars, monVars>>

\* line 154: enhance_generic_prompts(client, dataset) is called
CallEnhance ==
  /\ pl_pc = "enhance" /\ en_pc = "idle"
  /\ en_examples' = dataset
  /\ en_pc' = "identify"
  /\ UNCHANGED <<batch_size, generic_indices, generic_bodies, refined_prompts,
                 calls, replies, en_result>>
  /\ UNCHANGED <<mboxVars, splitVars, pipeVars, textVars, monVars>>

\* line 154: it returned
EnhanceReturned ==
  /\ pl_pc = "enhance" /\ en_pc = "done"
  /\ enhanced_dataset' = en_result.examples
  /\ api_calls' = en_result.num_api_calls
  /\ pl_pc' = "split"
  /\ UNCHANGED <<pl_exists, training_file, validation_file>>
  /\ UNCHANGED <<mboxVars, splitVars, enhVars, textVars, monVars>>

\* lines 155-159: it raised
EnhanceFailed ==
  /\ pl_pc = "enhance" /\ en_pc = "raised"
  /\ enhanced_dataset' = EnhancedOnFailure(dataset, generic_indices, refined_prompts)
  /\ api_calls' = 0
  /\ pl_pc' = "split"
  /\ UNCHANGED <<pl_exists, training_file, validation_file>>
  /\ UNCHANGED <<mboxVars, splitVars, enhVars, textVars, monVars>>

\* lines 165-174: split_dataset(enhanced_dataset), then the two files
SplitAndWrite ==
  /\ pl_pc = "split"
  /\ LET out == split_dataset(enhanced_dataset, VALIDATION_SPLIT_RATIO, 42, rng)
     IN  /\ training_file' = write_jsonl(out.train)
         /\ validation_file' = write_jsonl(out.val)
         /\ rng' = out.rng
  /\ pl_pc' = "done"
  /\ UNCHANGED <<pl_exists, enhanced_dataset, api_calls>>
  /\ UNCHANGED <<sd_examples, sd_ratio, sd_seed, draws, sd_results>>
  /\ UNCHANGED <<mboxVars, enhVars, textVars, monVars>>

NextPipeline ==
  \/ FileMissing
  \/ CallProcessMbox
  \/ ScanRaise
  \/ ScanSkip
  \/ ScanOutbound
  \/ ScanInbound
  \/ Dedupe
  \/ Pair
  \/ Return
  \/ ExtractFailed
  \/ TooFewExit
  \/ EnoughExamples
  \/ ClientRaise
  \/ CallEnhance
  \/ Identify
  \/ BatchCall
  \/ BatchRaise
  \/ Finish
  \/ EnhanceReturned
  \/ EnhanceFailed
  \/ SplitAndWrite

(***************************************************************************)
(* The Body Sanitizer on its own: process_mbox, lines 321-323, applied to  *)
(* a body, and then applied again to what it returned.                     *)
(***************************************************************************)
\* the lines a body is made of
BodyLines ==
  { <<"h","e","l","l","o"," ","t","h","e","r","e">>,
    <<">"," ","q","u","o","t","e","d"," ","t","e","x","t">>,
    <<"-","-">>,
    <<"S","e","n","t"," ","f","r","o","m"," ","m","y"," ","i","P","h","o","n","e">>,
    <<"F","r","o","m",":"," ","B","o","b">>,
    <<"O","n"," ","M","o","n",","," ","B","o","b"," ","w","r","o","t","e",":">>,
    <<"-","_","_","_","_","_","_","_","_","_","_","_","_","_","_","_","_","_","_","_","_","-">>,
    <<"_","_","_","_","_","_","_","_","_","_","_","_","_","_","_","_","_","_","_","_",">"," ","o","l","d"," ","t","e","x","t">>,
    <<" ","b","y","e"," ","n","o","w"," ">>,
    <<>> }
SanitizeBodies ==
  {str_join_nl(ls) : ls \in UNION {[1..n -> BodyLines] : n \in 0..MaxLines}}

\* the text the next stage is applied to
CurrentText == IF tx_output = <<>> THEN tx_input ELSE tx_output[Len(tx_output)]
\* the stage after strip_email_metadata: the next pass, if there is one
AfterPass == IF Len(tx_output) + 1 < 3 * MaxPasses THEN "strip_quoted" ELSE "done"

InitSanitize ==
  /\ tx_pc = "strip_quoted"
  /\ tx_input \in SanitizeBodies
  /\ tx_output = <<>>

\* line 321: body = strip_quoted(body)
StripQuoted ==
  /\ tx_pc = "strip_quoted"
  /\ tx_output' = Append(tx_output, strip_quoted(CurrentText))
  /\ tx_pc' = "strip_signature"
  /\ UNCHANGED tx_input
  /\ UNCHANGED notText

\* line 322: body = strip_signature(body)
StripSignature ==
  /\ tx_pc = "strip_signature"
  /\ tx_output' = Append(tx_output, strip_signature(CurrentText))
  /\ tx_pc' = "strip_email_metadata"
  /\ UNCHANGED tx_input
  /\ UNCHANGED notText

\* line 323: body = strip_email_metadata(body)
StripMetadata ==
  /\ tx_pc = "strip_email_metadata"
  /\ tx_output' = Append(tx_output, strip_email_metadata(CurrentText))
  /\ tx_pc' = AfterPass
  /\ UNCHANGED tx_input
  /\ UNCHANGED notText

NextSanitize ==
  \/ StripQuoted
  \/ StripSignature
  \/ StripMetadata

(***************************************************************************)
(* extract_clean_text on its own (lib/email_cleaner.py, lines 11-60).      *)
(***************************************************************************)
\* the parts a message is made of
ContentParts ==
  << Part("text/plain", <<>>, <<"p","l","a","i","n"," ","t","e","x","t">>, "utf-8"),
     Part("text/plain", <<"a","t","t","a","c","h","m","e","n","t",";"," ","f","i","l","e","n","a","m","e","=","a",".","t","x","t">>, <<"s","e","c","r","e","t">>, "utf-8"),
     Part("text/html", <<>>, <<"<","p",">","h","e","l","l","o"," ","<","b",">","t","h","e","r","e","<","/","b",">","<","/","p",">">>, ""),
     Part("text/plain", <<>>, <<"h","e","l","l","o">>, "x-unknown"),
     Part("text/plain", <<>>, <<>>, "utf-8"),
     Part("text/html", <<"a","t","t","a","c","h","m","e","n","t">>, <<"<","p",">","d","o","c","<","/","p",">">>, "utf-8"),
     Part("application/pdf", <<"a","t","t","a","c","h","m","e","n","t",";"," ","f","i","l","e","n","a","m","e","=","a",".","p","d","f">>, <<"%","P","D","F","-","1",".","4">>, ""),
     Part("text/html", <<>>, <<"<","i",">","m","a","r","k","u","p","<","/","i",">">>, "x-unknown") >>

\* msg.walk() of a multipart message yields the container first
Container == Part("multipart/mixed", <<>>, None, "")
MessageOf(multipart, parts) ==
  [msgid |-> <<>>, from |-> BOB_FROM, subject |-> <<>>, inreply |-> <<>>,
   multipart |-> multipart, parts |-> parts]
ExtractMessages ==
  {MessageOf(FALSE, <<ContentParts[k]>>) : k \in 1..Len(ContentParts)}
  \cup {MessageOf(TRUE, <<Container>> \o [j \in 1..Len(ks) |-> ContentParts[ks[j]]]) :
          ks \in UNION {[1..n -> 1..Len(ContentParts)] : n \in 0..MaxParts}}

InitExtract ==
  /\ tx_pc = "extract_clean_text"
  /\ tx_input \in ExtractMessages
  /\ tx_output = <<>>

\* lines 19-60: the call returns
ExtractReturn ==
  /\ tx_pc = "extract_clean_text"
  /\ ~extract_raises(tx_input)
  /\ tx_output' = <<extract_clean_text(tx_input)>>
  /\ tx_pc' = "returned"
  /\ UNCHANGED tx_input
  /\ UNCHANGED notText

\* lines 47-51: decode raises in the single-part branch
ExtractRaise ==
  /\ tx_pc = "extract_clean_text"
  /\ extract_raises(tx_input)
  /\ tx_pc' = "raised"
  /\ UNCHANGED <<tx_input, tx_output>>
  /\ UNCHANGED notText

NextExtract ==
  \/ ExtractReturn
  \/ ExtractRaise

(***************************************************************************)
(* is_meaningful on its own (lib/email_cleaner.py, lines 230-276), called  *)
(* on a body as it is, or as process_mbox calls it: on the sanitized body  *)
(* (lines 321-326).                                                        *)
(***************************************************************************)
ClassifyBodies ==
  { <<>>,
    <<" "," "," ">>,
    <<"S","e","n","t"," ","f","r","o","m"," ","m","y"," ","i","P","h","o","n","e">>,
    <<"h","t","t","p",":","/","/","e","x","a","m","p","l","e",".","c","o","m">>,
    <<"J","o","h","n"," ","D","o","e","\n","5","5","5","-","1","2","3","-","4","5","6","7">>,
    <<"T","h","a","n","k","s"," ","f","o","r"," ","t","h","e"," ","u","p","d","a","t","e",","," ","l","e","t","'","s"," ","m","e","e","t"," ","T","h","u","r","s","d","a","y"," ","a","t"," ","3","p","m"," ","t","o"," ","f","i","n","a","l","i","z","e"," ","t","h","e"," ","p","r","o","p","o","s","a","l",".">>,
    <<"!","!","!">>,
    <<"B","o","b"," ","r","e","a","c","t","e","d"," ","v","i","a"," ","G","m","a","i","l">>,
    <<" ","U","n","s","u","b","s","c","r","i","b","e"," ">>,
    <<"s","e","e"," ","h","t","t","p",":","/","/","y",".","i","o","/","x"," ","f","o","r"," ","t","h","e"," ","n","o","t","e","s">>,
    <<"I"," ","f","i","x","e","d"," ","t","h","e"," ","h","t","t","p"," ","h","a","n","d","l","e","r"," ","y","e","s","t","e","r","d","a","y">>,
    <<"t","h","i","s"," ","w","a","s"," ","a","u","t","o","m","a","t","i","c","a","l","l","y"," ","g","e","n","e","r","a","t","e","d"," ","f","o","r"," ","y","o","u">>,
    <<"h","e","r","e"," ","i","s"," ","a"," ","t","e","s","t"," ","f","o","r","w","a","r","d"," ","f","o","r"," ","y","o","u">>,
    <<"m","a","i","l"," ","m","e"," ","a","t"," ","b","o","b","@","y",".","i","o">>,
    <<"y","o","u","r"," ","o","r","d","e","r"," ","#","1","2","3","4","5"," ","h","a","s"," ","s","h","i","p","p","e","d">>,
    <<"[","i","m","a","g","e",":"," ","l","o","g","o","]"," ","t","h","a","n","k","s">>,
    <<"b","o","d","y"," ","{"," ","c","o","l","o","r",":"," ","r","e","d",";"," ","}">>,
    <<"J","o","i","n"," ","Z","o","o","m"," ","M","e","e","t","i","n","g"," ","a","t"," ","n","o","o","n">>,
    <<"s","e","e"," ","b","e","l","o","w","\n","F","r","o","m",":"," ","b","o","b","@","y",".","i","o">>,
    <<"u","s","e","r","n","a","m","e",":"," ","b","o","b","\n","p","a","s","s","w","o","r","d",":"," ","h","u","n","t","e","r","2">>,
    <<"u","s","e","r","n","a","m","e",":"," ","b","o","b"," ","i","s"," ","t","a","k","e","n">>,
    <<"h","e","l","l","o"," ","t","h","e","r","e"," ","m","y"," ","f","r","i","e","n","d">>,
    <<"o","k">>,
    <<"p","l","e","a","s","e"," ","r","e","a","d"," ","h","t","t","p",":","/","/","y",".","i","o","/","x"," ","b","e","f","o","r","e"," ","o","u","r"," ","c","a","l","l"," ","o","n"," ","M","o","n","d","a","y"," ","m","o","r","n","i","n","g"," ","a","t"," ","t","e","n",","," ","t","h","a","n","k","s"," ","a"," ","l","o","t">>,
    <<"y","o","u"," ","c","a","n"," ","r","e","a","c","h"," ","m","e"," ","o","n"," ","5","5","5","-","1","2","3","-","4","5","6","7"," ","a","n","y"," ","d","a","y"," ","o","f"," ","t","h","e"," ","w","e","e","k"," ","a","f","t","e","r"," ","l","u","n","c","h"," ","t","i","m","e">>,
    <<"s","o","u","n","d","s"," ","g","o","o","d","\n","-","-","\n","J","o","h","n"," ","D","o","e","\n","5","5","5","-","1","2","3","-","4","5","6","7">>,
    <<">"," ","a","r","e"," ","y","o","u"," ","f","r","e","e","?","\n","y","e","s">>,
    <<"c","a","l","l"," ","5","5","5","1","2","3","4","5","6","7">> }
ClassifySubjects == { <<"l","u","n","c","h">>, <<"R","e",":"," ","T","e","s","t"," ","E","m","a","i","l">> }

InitClassify ==
  /\ tx_pc = "body"
  /\ tx_input \in [body : ClassifyBodies, subject : ClassifySubjects]
  /\ tx_output = <<>>

\* the body is_meaningful is called with
ClassifiedBody == IF tx_output = <<>> THEN tx_input.body ELSE tx_output[1]

\* process_mbox, lines 321-323
SanitizeBody ==
  /\ tx_pc = "body" /\ tx_output = <<>>
  /\ tx_output' = <<sanitize(tx_input.body)>>
  /\ UNCHANGED <<tx_pc, tx_input>>
  /\ UNCHANGED notText

\* is_meaningful returns True (line 276)
ClassifyKeep ==
  /\ tx_pc = "body"
  /\ is_meaningful(ClassifiedBody, tx_input.subject)
  /\ tx_pc' = "kept"
  /\ UNCHANGED <<tx_input, tx_output>>
  /\ UNCHANGED notText

\* is_meaningful returns False (one of lines 235-275)
ClassifyReject ==
  /\ tx_pc = "body"
  /\ ~is_meaningful(ClassifiedBody, tx_input.subject)
  /\ tx_pc' = "rejected"
  /\ UNCHANGED <<tx_input, tx_output>>
  /\ UNCHANGED notText

NextClassify ==
  \/ SanitizeBody
  \/ ClassifyKeep
  \/ ClassifyReject

(***************************************************************************)
(* generate_specific_prompts_batch on its own (lib/prompt_enhancer.py,     *)
(* lines 11-67): a list of bodies, and the content of the answer.          *)
(***************************************************************************)
ParseAnswers ==
  {NumberedAnswer(n) : n \in 0..(MaxBodies + 1)} \cup
  { UntidyAnswer,
    <<"H","e","r","e"," ","a","r","e"," ","t","h","e"," ","i","n","s","t","r","u","c","t","i","o","n","s",":","\n","1","."," ","A","s","k"," ","1","\n","2","."," ","A","s","k"," ","2">>,
    <<"1","."," ","A","s","k"," ","1","\n","2","."," ","2","0","2","4","\n","3","."," ","A","s","k"," ","3">>,
    <<"1","."," ","3"," ","w","a","y","s"," ","t","o"," ","d","e","c","l","i","n","e","\n","2","."," ","A","s","k"," ","2">>,
    <<"1",":"," ","A","s","k"," ","1","\n","2",")"," ","A","s","k"," ","2">>,
    <<"-"," ","A","s","k"," ","1","\n","-"," ","A","s","k"," ","2">>,
    <<" "," ","1","."," ","A","s","k"," ","1"," "," ","\n","\n","\n","2",".","A","s","k"," ","2","\n">>,
    <<"1","0","."," ","A","s","k"," ","1","0">>,
    <<"1","."," ","A","s","k"," ","1","\n","\n","2","."," ","A","s","k"," ","2","\n","\n","L","e","t"," ","m","e"," ","k","n","o","w"," ","i","f"," ","y","o","u"," ","n","e","e","d"," ","m","o","r","e",".">> }
ParseInputs ==
  [bodies : {[k \in 1..n |-> ReplyBody(k)] : n \in 0..MaxBodies}, content : ParseAnswers]

InitParse ==
  /\ tx_pc = "generate_specific_prompts_batch"
  /\ tx_input \in ParseInputs
  /\ tx_output = <<>>

\* lines 22-23: no bodies, no call
ParseNoBodies ==
  /\ tx_pc = "generate_specific_prompts_batch"
  /\ tx_input.bodies = <<>>
  /\ tx_output' = <<generate_specific_prompts_batch(tx_input.bodies, tx_input.content)>>
  /\ tx_pc' = "returned"
  /\ UNCHANGED tx_input
  /\ UNCHANGED notText

\* lines 25-67: the call is made and its answer parsed
ParseAnswer ==
  /\ tx_pc = "generate_specific_prompts_batch"
  /\ tx_input.bodies # <<>>
  /\ tx_output' = <<generate_specific_prompts_batch(tx_input.bodies, tx_input.content)>>
  /\ tx_pc' = "returned"
  /\ UNCHANGED tx_input
  /\ UNCHANGED notText

NextParse ==
  \/ ParseNoBodies
  \/ ParseAnswer

(***************************************************************************)
(* monitor_job (finetune.py, lines 80-157).  The job lives at the service  *)
(* and changes there while the script polls it; a job that has succeeded,  *)
(* failed or been cancelled stays as it is.                                *)
(***************************************************************************)
FINETUNING_BASE_MODEL == <<"g","p","t","-","4","o","-","m","i","n","i","-","2","0","2","4","-","0","7","-","1","8">>
JobStatuses ==
  { <<"v","a","l","i","d","a","t","i","n","g","_","f","i","l","e","s">>, <<"q","u","e","u","e","d">>, <<"r","u","n","n","i","n","g">>, <<"s","u","c","c","e","e","d","e","d">>, <<"f","a","i","l","e","d">>, <<"c","a","n","c","e","l","l","e","d">> }
\* the jobs the service can report: a model only once succeeded; the count
\* of trained tokens is kept as the digits json.dump writes
Jobs ==
  { j \in [status : JobStatuses, trained_tokens : {None, <<"1","2","0","0">>}, fine_tuned_model : {None, <<"f","t",":","m">>}] :
      /\ (j.fine_tuned_model # None) <=> (j.status = <<"s","u","c","c","e","e","d","e","d">>)
      /\ j.status = <<"s","u","c","c","e","e","d","e","d">> => j.trained_tokens # None }
NoJob == [status |-> None, trained_tokens |-> None, fine_tuned_model |-> None]
\* what an earlier run may have left in MODEL_INFO_FILE
StaleInfo ==
  [job_id |-> <<"f","t","j","o","b","-","0">>, model_id |-> <<"f","t",":","o","l","d">>, base_model |-> FINETUNING_BASE_MODEL,
   trained_tokens |-> <<"7">>, status |-> <<"s","u","c","c","e","e","d","e","d">>]
\* MODEL_INFO_FILE does not exist
NoInfo ==
  [job_id |-> None, model_id |-> None, base_model |-> None, trained_tokens |-> None, status |-> None]
JobId == <<"f","t","j","o","b","-","1">>

is_complete_NotCancelled(s) == s \in { <<"s","u","c","c","e","e","d","e","d">>, <<"f","a","i","l","e","d">> }
\* line 113
is_complete(s) == s \in { <<"s","u","c","c","e","e","d","e","d">>, <<"f","a","i","l","e","d">>, <<"c","a","n","c","e","l","l","e","d">> }

InitMonitor ==
  /\ mon_pc = "retrieve"
  /\ remote_job \in Jobs
  /\ job = NoJob
  /\ status = None
  /\ last_status = None
  /\ shown = <<>>
  /\ changes = 0
  /\ model_info \in {NoInfo, StaleInfo}

\* the service moves the job on
JobAdvance ==
  /\ mon_pc \in {"retrieve", "check"}
  /\ ~is_complete(remote_job.status)
  /\ changes < MaxChanges
  /\ remote_job' \in Jobs \ {remote_job}
  /\ changes' = changes + 1
  /\ UNCHANGED <<mon_pc, job, status, last_status, shown, model_info>>
  /\ UNCHANGED notMonitor

\* lines 100-110: one poll
Retrieve ==
  /\ mon_pc = "retrieve"
  /\ job' = remote_job
  /\ status' = remote_job.status
  /\ shown' = IF remote_job.status # last_status THEN Append(shown, remote_job.status) ELSE shown
  /\ last_status' = remote_job.status
  /\ mon_pc' = "check"
  /\ UNCHANGED <<remote_job, changes, model_info>>
  /\ UNCHANGED notMonitor

\* line 100 raises: main reports the error (lines 223-226)
RetrieveRaise ==
  /\ mon_pc = "retrieve"
  /\ mon_pc' = "raised"
  /\ UNCHANGED <<remote_job, changes, job, status, last_status, shown, model_info>>
  /\ UNCHANGED notMonitor

\* lines 113, 117: not complete, wait for the next poll
Sleep ==
  /\ mon_pc = "check"
  /\ ~is_complete(status)
  /\ mon_pc' = "retrieve"
  /\ UNCHANGED <<remote_job, changes, job, status, last_status, shown, model_info>>
  /\ UNCHANGED notMonitor

\* line 117 interrupted from the keyboard (main, lines 215-222)
Interrupt ==
  /\ mon_pc = "check"
  /\ ~is_complete(status)
  /\ mon_pc' = "interrupted"
  /\ UNCHANGED <<remote_job, changes, job, status, last_status, shown, model_info>>
  /\ UNCHANGED notMonitor

\* lines 113-114 and 122-145
Succeeded ==
  /\ mon_pc = "check"
  /\ is_complete(status)
  /\ status = <<"s","u","c","c","e","e","d","e","d">>
  /\ model_info' = [job_id |-> JobId, model_id |-> job.fine_tuned_model,
                    base_model |-> FINETUNING_BASE_MODEL,
                    trained_tokens |-> job.trained_tokens, status |-> status]
  /\ mon_pc' = "returned"
  /\ UNCHANGED <<remote_job, changes, job, status, last_status, shown>>
  /\ UNCHANGED notMonitor

\* lines 113-114 and 147-153
Failed ==
  /\ mon_pc = "check"
  /\ is_complete(status)
  /\ status # <<"s","u","c","c","e","e","d","e","d">>
  /\ status = <<"f","a","i","l","e","d">>
  /\ mon_pc' = "returned"
  /\ UNCHANGED <<remote_job, changes, job, status, last_status, shown, model_info>>
  /\ UNCHANGED notMonitor

\* lines 113-114 and 155-158
Cancelled ==
  /\ mon_pc = "check"
  /\ is_complete(status)
  /\ status \notin { <<"s","u","c","c","e","e","d","e","d">>, <<"f","a","i","l","e","d">> }
  /\ mon_pc' = "returned"
  /\ UNCHANGED <<remote_job, changes, job, status, last_status, shown, model_info>>
  /\ UNCHANGED notMonitor

\* the steps of the script, as against those of the service
MonitorStep ==
  \/ Retrieve
  \/ RetrieveRaise
  \/ Sleep
  \/ Interrupt
  \/ Succeeded
  \/ Failed
  \/ Cancelled

NextMonitor ==
  \/ JobAdvance
  \/ MonitorStep

(***************************************************************************)
(* The specifications: one per entry point.                                *)
(***************************************************************************)
IdlePipeline ==
  /\ pl_pc = "idle"
  /\ pl_exists = TRUE
  /\ enhanced_dataset = None
  /\ api_calls = 0
  /\ training_file = None
  /\ validation_file = None

IdleText ==
  /\ tx_pc = "idle"
  /\ tx_input = <<>>
  /\ tx_output = <<>>

IdleMonitor ==
  /\ mon_pc = "idle"
  /\ remote_job = NoJob
  /\ job = NoJob
  /\ status = None
  /\ last_status = None
  /\ shown = <<>>
  /\ changes = 0
  /\ model_info = NoInfo

Init == InitMbox /\ IdleSplit /\ IdleEnhance /\ IdlePipeline /\ IdleText /\ IdleMonitor
Next == NextMbox
Spec == Init /\ [][Next]_vars

SplitInit == InitSplit /\ IdleMbox /\ IdleEnhance /\ IdlePipeline /\ IdleText /\ IdleMonitor
SpecSplit == SplitInit /\ [][NextSplit]_vars

EnhanceInit == InitEnhance /\ IdleMbox /\ IdleSplit /\ IdlePipeline /\ IdleText /\ IdleMonitor
SpecEnhance == EnhanceInit /\ [][NextEnhance]_vars

PipelineInit == InitPipeline /\ IdleSplit /\ IdleEnhance /\ IdleText /\ IdleMonitor
SpecPipeline == PipelineInit /\ [][NextPipeline]_vars

SanitizeInit == InitSanitize /\ IdleMbox /\ IdleSplit /\ IdleEnhance /\ IdlePipeline /\ IdleMonitor
SpecSanitize == SanitizeInit /\ [][NextSanitize]_vars

ExtractInit == InitExtract /\ IdleMbox /\ IdleSplit /\ IdleEnhance /\ IdlePipeline /\ IdleMonitor
SpecExtract == ExtractInit /\ [][NextExtract]_vars

ClassifyInit == InitClassify /\ IdleMbox /\ IdleSplit /\ IdleEnhance /\ IdlePipeline /\ IdleMonitor
SpecClassify == ClassifyInit /\ [][NextClassify]_vars

ParseInit == InitParse /\ IdleMbox /\ IdleSplit /\ IdleEnhance /\ IdlePipeline /\ IdleMonitor
SpecParse == ParseInit /\ [][NextParse]_vars

MonitorInit == InitMonitor /\ IdleMbox /\ IdleSplit /\ IdleEnhance /\ IdlePipeline /\ IdleText
SpecMonitor == MonitorInit /\ [][NextMonitor]_vars
\* the script is one thread that runs on: a step of it that stays possible
\* is taken
SpecMonitorFair == SpecMonitor /\ WF_vars(MonitorStep)

(***************************************************************************)
(* What the claims speak of, read off the mailbox itself.                  *)
(***************************************************************************)
\* the message at mailbox position j passed extraction and is_meaningful
KeptAt(j) == ~cleaned[box[j]].raised /\ cleaned[box[j]].keep
\* its From header contains the self address
SentAt(j) == str_contains(str_lower(Corpus[box[j]].from), str_lower(user_email))
IdAt(j)   == str_strip(Corpus[box[j]].msgid)
BodyAt(j) == cleaned[box[j]].body
\* the positions of the meaningful outbound and inbound messages
SentPositions     == {j \in 1..Len(box) : KeptAt(j) /\ SentAt(j)}
ReceivedPositions == {j \in 1..Len(box) : KeptAt(j) /\ ~SentAt(j)}
SentIds == {IdAt(j) : j \in SentPositions}
\* the two texts of an example
InstructionOf(e) == e.messages[1].content
ResponseOf(e)    == e.messages[2].content
\* the second loop builds example i from unique_outbound[i]
ExampleId(i) == unique_outbound[i].msgid
\* the meaningful inbound messages example i's In-Reply-To names
ParentsOf(i) ==
  {j \in ReceivedPositions :
     unique_outbound[i].inreply # <<>> /\ IdAt(j) = unique_outbound[i].inreply}
FirstSentPos(id) == SetMin({j \in SentPositions : IdAt(j) = id})

\* C1: when process_mbox returns, every identifier of a meaningful outbound
\* message has exactly one example, however often the identifier occurs.
C1_OneExamplePerId ==
  pc = "done" =>
    /\ Len(dataset) = Len(unique_outbound)
    /\ \A id \in SentIds :
         Cardinality({i \in 1..Len(dataset) : ExampleId(i) = id}) = 1
\* two meaningful outbound messages shared an identifier
C1_Witness ==
  /\ pc = "done"
  /\ \E j1, j2 \in SentPositions : j1 < j2 /\ IdAt(j1) = IdAt(j2)
  /\ Len(dataset) >= 1

\* C2: when process_mbox returns, an example whose outbound message names a
\* meaningful inbound message in a non-empty In-Reply-To pairs that message's
\* body (the last one filed under the identifier) with the outbound body,
\* wherever the inbound message stands in the mailbox; an outbound message
\* with an empty In-Reply-To gets a synthetic instruction.
C2_ReplyResolution ==
  pc = "done" =>
    \A i \in 1..Len(unique_outbound) :
      /\ ParentsOf(i) # {} =>
           dataset[i] = Example(BodyAt(SetMax(ParentsOf(i))), unique_outbound[i].body)
      /\ unique_outbound[i].inreply = <<>> =>
           dataset[i] = Example(intent_from_subject_or_body(unique_outbound[i].subject,
                                                            unique_outbound[i].body),
                                unique_outbound[i].body)
\* a reply was paired with a parent that stands after it in the mailbox
C2_Witness ==
  /\ pc = "done"
  /\ \E i \in 1..Len(dataset) :
       /\ ParentsOf(i) # {}
       /\ \A j \in SentPositions : IdAt(j) = ExampleId(i) => j < SetMax(ParentsOf(i))

\* C3: the instruction of every example is one of the five synthetic
\* instructions or the body of a meaningful message that the self address
\* did not send and that the example's In-Reply-To names.
C3_InstructionSource ==
  \A i \in 1..Len(dataset) :
    \/ InstructionOf(dataset[i]) \in SyntheticIntents
    \/ \E j \in ParentsOf(i) : InstructionOf(dataset[i]) = BodyAt(j)
\* an example with an inbound body and one with a synthetic instruction
C3_Witness ==
  /\ pc = "done"
  /\ \E i \in 1..Len(dataset) : InstructionOf(dataset[i]) \notin SyntheticIntents
  /\ \E i \in 1..Len(dataset) : InstructionOf(dataset[i]) \in SyntheticIntents

\* C4: the response of every example is the sanitized body of a message
\* sent by the self address that passed is_meaningful and carries the
\* example's identifier.
C4_ResponseSource ==
  \A i \in 1..Len(dataset) :
    \E j \in SentPositions : IdAt(j) = ExampleId(i) /\ ResponseOf(dataset[i]) = BodyAt(j)
\* examples were built from a mailbox that also holds a rejected outbound
\* message and a meaningful inbound one
C4_Witness ==
  /\ pc = "done" /\ Len(dataset) >= 1
  /\ \E j \in 1..Len(box) : SentAt(j) /\ ~cleaned[box[j]].raised /\ ~cleaned[box[j]].keep
  /\ ReceivedPositions # {}

\* C5: when process_mbox returns, the examples stand in the order in which
\* their identifiers were first met among the meaningful outbound messages.
C5_FirstSeenOrder ==
  pc = "done" =>
    /\ \A i \in 1..Len(dataset) : ExampleId(i) \in SentIds
    /\ \A i1, i2 \in 1..Len(dataset) :
         i1 < i2 => FirstSentPos(ExampleId(i1)) < FirstSentPos(ExampleId(i2))
\* an identifier recurred after another identifier had been met
C5_Witness ==
  /\ pc = "done" /\ Len(dataset) = 2
  /\ \E j1, j2, j3 \in SentPositions :
       j1 < j2 /\ j2 < j3 /\ IdAt(j1) = IdAt(j3) /\ IdAt(j1) # IdAt(j2)

\* the priority list of the claim
C6_Rule(subject, body) ==
  LET s == str_strip(str_lower(subject))
  IN  CASE str_contains(s, <<"u","n","s","u","b","s","c","r","i","b","e">>) \/ str_strip(str_lower(body)) = <<"u","n","s","u","b","s","c","r","i","b","e">>
             -> INTENT_UNSUBSCRIBE
        [] OTHER ->
      CASE str_startswith(s, <<"r","e",":">>) -> INTENT_REPLY
        [] OTHER ->
      CASE str_startswith(s, <<"f","w","d",":">>) \/ str_startswith(s, <<"f","w",":">>) -> INTENT_FORWARD
        [] OTHER ->
      CASE WordCount(body) <= 4 -> INTENT_BRIEF
        [] OTHER -> INTENT_GENERIC
\* C6: an example whose outbound message has no resolvable parent carries
\* the instruction the priority list gives; a subject that starts with
\* "re:" never gives the generic instruction.
C6_SyntheticPriority ==
  \A i \in 1..Len(dataset) :
    ParentsOf(i) = {} =>
      /\ InstructionOf(dataset[i]) = C6_Rule(unique_outbound[i].subject, unique_outbound[i].body)
      /\ str_startswith(str_strip(str_lower(unique_outbound[i].subject)), <<"r","e",":">>)
           => InstructionOf(dataset[i]) # INTENT_GENERIC
\* all five synthetic instructions were produced
C6_Witness ==
  /\ pc = "done"
  /\ \E i \in 1..Len(dataset) :
       /\ ParentsOf(i) = {}
       /\ InstructionOf(dataset[i]) = INTENT_UNSUBSCRIBE
       /\ str_startswith(str_strip(str_lower(unique_outbound[i].subject)), <<"r","e",":">>)
  /\ \E i \in 1..Len(dataset) : ParentsOf(i) = {} /\ InstructionOf(dataset[i]) = INTENT_FORWARD
  /\ \E i \in 1..Len(dataset) : ParentsOf(i) = {} /\ InstructionOf(dataset[i]) = INTENT_REPLY

(***************************************************************************)
(* split_dataset                                                           *)
(***************************************************************************)
\* what a call returned, training first
Returned(a) == sd_results[a].train \o sd_results[a].val
\* how often v occurs in x
Count(x, v) == Cardinality({k \in 1..Len(x) : x[k] = v})

\* C7: two calls of split_dataset with the same examples, ratio and seed
\* return the same training sequence and the same validation sequence, item
\* for item, whatever state the shared generator was in before each call.
C7_Deterministic ==
  \A a, b \in 1..Len(sd_results) :
    /\ sd_results[a].train = sd_results[b].train
    /\ sd_results[a].val = sd_results[b].val

\* two calls that began in different generator states, neither of them the
\* seeded one, on a list the shuffle reorders, with both parts non-empty
C7_Witness ==
  /\ Len(sd_results) = 2
  /\ sd_results[1].before # sd_results[2].before
  /\ \A a \in 1..2 : sd_results[a].before # random_seed(0, sd_seed)
  /\ draws > 0
  /\ sd_results[1].val # <<>> /\ sd_results[1].train # <<>>
  /\ sd_results[1].val \o sd_results[1].train # sd_examples

\* C8: the validation sequence is the first floor(len(examples) * ratio)
\* items of the shuffled sequence and the training sequence the remaining
\* ones; when that floor is 0, validation is empty and training holds every
\* example.  The ratio is the number the caller wrote, num/den.
C8_FloorPrefix ==
  \A a \in 1..Len(sd_results) :
    LET shuffled == random_shuffle(sd_examples,
                                   random_seed(sd_results[a].before, sd_seed)).list
        total    == Len(sd_examples)
        floor    == (total * sd_ratio.num) \div sd_ratio.den
    IN  /\ sd_results[a].val = SubSeq(shuffled, 1, floor)
        /\ sd_results[a].train = SubSeq(shuffled, floor + 1, total)
        /\ floor = 0 => sd_results[a].val = <<>> /\ Len(sd_results[a].train) = total

\* the floor of total times the double the ratio is stored as, no rounding
FloorOfExactProduct(total, x) ==
  LET b == MulBits(x.mant, total)
  IN  IF Len(b) <= -x.exp THEN 0 ELSE FromBits(SubSeq(b, 1, Len(b) + x.exp))

\* the same statement read with the stored double in place of num/den
C8_FloorPrefixOfStoredRatio ==
  \A a \in 1..Len(sd_results) :
    Len(sd_results[a].val) = FloorOfExactProduct(Len(sd_examples), sd_ratio)

\* C9: the training sequence followed by the validation sequence is a
\* permutation of the input: as long as the input, and holding every example
\* as often as the input does.
C9_Partition ==
  \A a \in 1..Len(sd_results) :
    /\ Len(Returned(a)) = Len(sd_examples)
    /\ \A v \in Range(Returned(a)) \cup Range(sd_examples) :
         Count(Returned(a), v) = Count(sd_examples, v)

\* a call that put examples on both sides, reordered a list in which an
\* example occurs more than once
C9_Witness ==
  \E a \in 1..Len(sd_results) :
    /\ sd_results[a].val # <<>> /\ sd_results[a].train # <<>>
    /\ Returned(a) # sd_examples
    /\ sd_results[a].val \o sd_results[a].train # sd_examples
    /\ \E v \in Range(sd_examples) : Count(sd_examples, v) > 1
    /\ Cardinality(Range(sd_examples)) > 1

(***************************************************************************)
(* enhance_generic_prompts                                                 *)
(***************************************************************************)
\* the generic examples of the argument, in its order, and their bodies
GenericExamples == SelectSeq(en_examples, IsGenericExample)
BodyOfGeneric(j) == GenericExamples[j].messages[2].content
\* the least n with n * size >= count
Ceiling(count, size) ==
  CHOOSE n \in 0..count : n * size >= count /\ \A m \in 0..(n - 1) : m * size < count

\* C10: with G generic examples and batch size B, the i-th remote call
\* carries the bodies of the generic examples (i-1)*B+1 .. min(i*B, G), in
\* their original order; no more than ceil(G/B) calls are made; and when the
\* function returns, exactly ceil(G/B) calls were made (none when G = 0) and
\* the count it returns is the number of calls made.
C10_CallsPerBatch ==
  LET G == Len(GenericExamples)
      B == batch_size
  IN  /\ Len(calls) <= Ceiling(G, B)
      /\ \A i \in 1..Len(calls) :
           LET first == (i - 1) * B + 1
               last  == IF i * B < G THEN i * B ELSE G
           IN  /\ Len(calls[i]) = last - first + 1
               /\ Len(calls[i]) >= 1 /\ Len(calls[i]) <= B
               /\ \A k \in 1..Len(calls[i]) : calls[i][k] = BodyOfGeneric(first + k - 1)
      /\ en_pc = "done" =>
           /\ Len(calls) = Ceiling(G, B)
           /\ en_result.num_api_calls = Len(calls)
           /\ G = 0 => calls = <<>>

\* a return after several calls, the last batch shorter than the others, the
\* generic examples separated by one that is not generic
C10_Witness ==
  /\ en_pc = "done"
  /\ Len(calls) >= 2
  /\ batch_size >= 2
  /\ Len(calls[Len(calls)]) < batch_size
  /\ Len(GenericExamples) < Len(en_examples)
  /\ \E k \in 2..Len(en_examples) :
       /\ IsGenericExample(en_examples[k])
       /\ ~IsGenericExample(en_examples[k - 1])

\* the positions of the generic examples in the argument, and the j-th
GenericPositions == {k \in 1..Len(en_examples) : IsGenericExample(en_examples[k])}
NthGeneric(j) ==
  CHOOSE k \in GenericPositions : Cardinality({m \in GenericPositions : m <= k}) = j
\* the instruction the j-th generic example was returned with
ReturnedInstruction(j) == en_result.examples[NthGeneric(j)].messages[1].content
\* line 125: the instruction a missing line is replaced with
FallbackInstruction == <<"W","r","i","t","e"," ","a","n"," ","e","m","a","i","l"," ","i","n"," ","y","o","u","r"," ","t","o","n","e",".">>

\* C11: whatever the answers hold, fewer lines than asked for, as many, more
\* or none, the function does not raise on them and returns: every call that
\* came back was read, the return is possible as soon as the last batch is
\* answered, and the j-th generic example is returned with the j-th prompt
\* read, or with the fallback instruction when fewer than j were read.
C11_OneReplacementEach ==
  /\ Len(replies) = IF en_pc = "raised" THEN Len(calls) - 1 ELSE Len(calls)
  /\ (en_pc = "batches" /\ Len(calls) * batch_size >= Len(generic_bodies))
       => ENABLED Finish
  /\ en_pc = "done" =>
       /\ Len(en_result.examples) = Len(en_examples)
       /\ \A j \in 1..Len(GenericExamples) :
            ReturnedInstruction(j) =
              IF j <= Len(refined_prompts) THEN refined_prompts[j]
              ELSE FallbackInstruction

\* a return where one answer was empty, the prompts fell short, and one
\* generic example has a prompt of the remote model, another the fallback
C11_Witness ==
  /\ en_pc = "done"
  /\ \E i \in 1..Len(replies) : replies[i] = <<>>
  /\ Len(refined_prompts) >= 1
  /\ Len(refined_prompts) < Len(GenericExamples)
  /\ ReturnedInstruction(Len(GenericExamples)) = FallbackInstruction
  /\ ReturnedInstruction(1) = refined_prompts[1]
  /\ InstructionOf(en_examples[NthGeneric(Len(GenericExamples))]) # FallbackInstruction

\* C12: counts are kept per batch: the j-th generic example, the p-th body
\* of batch i, is returned with the p-th prompt read off the answer to batch
\* i, or with the fallback instruction when that answer held fewer than p.
C12_PerBatchCount ==
  en_pc = "done" =>
    \A j \in 1..Len(GenericExamples) :
      LET i == ((j - 1) \div batch_size) + 1
          p == ((j - 1) % batch_size) + 1
      IN  ReturnedInstruction(j) =
            IF p <= Len(replies[i]) THEN replies[i][p] ELSE FallbackInstruction

\* C13: the returned list is as long as the argument; an example that is not
\* generic is returned as it was; a generic one is returned as a user message
\* followed by an assistant message that holds its response text.
C13_Frame ==
  en_pc = "done" =>
    /\ Len(en_result.examples) = Len(en_examples)
    /\ \A k \in 1..Len(en_examples) :
         IF IsGenericExample(en_examples[k])
         THEN /\ Len(en_result.examples[k].messages) = 2
              /\ en_result.examples[k].messages[1].role = "user"
              /\ en_result.examples[k].messages[2] = en_examples[k].messages[2]
         ELSE en_result.examples[k] = en_examples[k]

\* a return that changed the instruction of a generic example, next to an
\* example with another instruction and one without messages
C13_Witness ==
  /\ en_pc = "done"
  /\ \E k \in GenericPositions :
       en_result.examples[k].messages[1] # en_examples[k].messages[1]
  /\ \E k \in 1..Len(en_examples) :
       "messages" \in DOMAIN en_examples[k] /\ k \notin GenericPositions
  /\ \E k \in 1..Len(en_examples) : "messages" \notin DOMAIN en_examples[k]

(***************************************************************************)
(* Claims about main.                                                      *)
(***************************************************************************)
\* the same lines, each as often, in any order
SameLines(a, b) ==
  /\ Len(a) = Len(b)
  /\ \A x \in Range(a) \cup Range(b) : Count(a, x) = Count(b, x)
\* what this run has written so far
WrittenLines == validation_file \o training_file
\* the remote call of enhance_generic_prompts raised
RemoteFailed == en_pc = "raised"

\* C14: when the remote call raises, in the first batch or in a later one,
\* main does not exit: it takes the fallback, goes on to the split and the
\* two files, and what it splits and writes is the dataset process_mbox
\* returned, no instruction refined, with api_calls 0.
C14_FallbackOnFailure ==
  RemoteFailed =>
    /\ pl_pc \in {"enhance", "split", "done"}
    /\ pl_pc = "enhance" => ENABLED EnhanceFailed
    /\ pl_pc \in {"split", "done"} => enhanced_dataset = dataset /\ api_calls = 0
    /\ pl_pc = "done" =>
         /\ training_file # None /\ validation_file # None
         /\ SameLines(WrittenLines, write_jsonl(dataset))

\* the second call raised after the first had returned refined prompts, and
\* both files were written
C14_Witness ==
  /\ RemoteFailed /\ pl_pc = "done"
  /\ Len(calls) = 2 /\ Len(replies) = 1
  /\ refined_prompts # <<>>
  /\ \E k \in 1..Len(dataset) : dataset[k].messages[1].content = INTENT_GENERIC
  /\ training_file # <<>> /\ validation_file # <<>>
  /\ Len(WrittenLines) = Len(dataset)

\* the run has called the remote model or written a file
HasEffect ==
  calls # <<>> \/ training_file # None \/ validation_file # None

\* C20: main calls the remote model or writes a file only when the mailbox
\* file exists, process_mbox returned, and the dataset holds at least
\* MIN_TRAINING_EXAMPLES examples; a missing file, a raise of process_mbox
\* and a short dataset each end in failure with no call made and no file
\* written; process_mbox raises only where extraction raises, never because
\* the dataset is short.
C20_GuardedEffects ==
  /\ (HasEffect \/ pl_pc \in {"enhance", "split", "done"}) =>
       /\ pl_exists
       /\ pc = "done"
       /\ Len(dataset) >= MIN_TRAINING_EXAMPLES
  /\ pl_pc = "failed" =>
       /\ ~HasEffect
       /\ ~pl_exists \/ pc = "raised" \/ (pc = "done" /\ Len(dataset) < MIN_TRAINING_EXAMPLES)
  /\ ~pl_exists => pl_pc \in {"start", "failed"} /\ pc = "idle"
  /\ pc = "raised" => pl_pc \in {"extract", "failed"}
  /\ (pc = "done" /\ Len(dataset) < MIN_TRAINING_EXAMPLES) => pl_pc \in {"extract", "failed"}
  /\ (pl_pc = "start" /\ ~pl_exists) => ENABLED FileMissing
  /\ (pl_pc = "extract" /\ pc = "raised") => ENABLED ExtractFailed
  /\ (pl_pc = "extract" /\ pc = "done" /\ Len(dataset) < MIN_TRAINING_EXAMPLES) =>
       ENABLED TooFewExit
  /\ pc = "raised" => pos < Len(box) /\ cleaned[box[pos + 1]].raised
  /\ pc = "done" => Len(dataset) = Len(unique_outbound)

\* process_mbox returned one example fewer than the minimum, and main failed
C20_Witness ==
  /\ pl_pc = "failed" /\ pl_exists
  /\ pc = "done"
  /\ Len(dataset) = MIN_TRAINING_EXAMPLES - 1
  /\ ~HasEffect

(***************************************************************************)
(* Claims about the text functions.                                        *)
(***************************************************************************)
\* C15: for every body, the three stages applied a second time to their own
\* result give that result again.
C15_Idempotent ==
  Len(tx_output) >= 6 => tx_output[6] = tx_output[3]

\* the parts of the message that carry content (a container carries none)
ContentOf(msg) == SelectSeq(msg.parts, LAMBDA p : p.payload # None)
MarkedAttachment(p) == str_contains(p.disp, <<"a","t","t","a","c","h","m","e","n","t">>)
OnlyAttachments(msg) ==
  /\ ContentOf(msg) # <<>>
  /\ \A k \in 1..Len(ContentOf(msg)) : MarkedAttachment(ContentOf(msg)[k])
ExtractEnded == tx_pc \in {"returned", "raised"}

\* C16: for a message all of whose content parts are marked as attachments,
\* multipart or single-part, extract_clean_text returns the empty string.
C16_NoAttachmentLeak ==
  (ExtractEnded /\ OnlyAttachments(tx_input)) =>
    tx_pc = "returned" /\ tx_output = << <<>> >>

\* the message without the parts whose declared character set is unknown
Undecodable(p) == p.payload # None /\ p.charset \notin KnownCharsets
WithoutUndecodable(msg) ==
  [msg EXCEPT !.parts = SelectSeq(msg.parts, LAMBDA p : ~Undecodable(p))]

\* C17: a part that cannot be decoded is skipped: extract_clean_text never
\* raises, for a multipart message and for a single-part message, and
\* returns what it returns for the message without that part.
C17_DecodeFailureSkipped ==
  ExtractEnded =>
    /\ tx_pc = "returned"
    /\ tx_output = <<extract_clean_text(WithoutUndecodable(tx_input))>>

(***************************************************************************)
(* Claims about what process_mbox files.                                   *)
(***************************************************************************)
\* the positions the first loop has passed, in order
Scanned == [j \in 1..pos |-> j]
ScannedSent == SelectSeq(Scanned, LAMBDA j : KeptAt(j) /\ SentAt(j))
ScannedReceived == {j \in 1..pos : KeptAt(j) /\ ~SentAt(j)}
\* what the message at position j is filed as when it is outbound
EntryAt(j) ==
  [msgid |-> IdAt(j), inreply |-> str_strip(Corpus[box[j]].inreply),
   subject |-> Corpus[box[j]].subject, body |-> BodyAt(j)]
\* the messages is_meaningful rejected
RejectedAt(j) == ~cleaned[box[j]].raised /\ ~cleaned[box[j]].keep
\* example i answers an identifier that only rejected messages carry
ParentRejected(i) ==
  /\ unique_outbound[i].inreply # <<>>
  /\ ParentsOf(i) = {}
  /\ \E j \in 1..Len(box) :
       RejectedAt(j) /\ ~SentAt(j) /\ IdAt(j) = unique_outbound[i].inreply

\* C18: a message is_meaningful rejects, an empty body included, is filed
\* nowhere: outbound holds the meaningful outbound messages seen so far and
\* nothing else, inbound the meaningful inbound ones, every example is built
\* from those, and a reply whose parent was rejected gets a synthetic
\* instruction.
C18_RejectedNeverFiled ==
  /\ outbound = [k \in 1..Len(ScannedSent) |-> EntryAt(ScannedSent[k])]
  /\ DOMAIN inbound = {IdAt(j) : j \in ScannedReceived}
  /\ \A j \in ScannedReceived :
       inbound[IdAt(j)] = BodyAt(SetMax({m \in ScannedReceived : IdAt(m) = IdAt(j)}))
  /\ pc = "done" =>
       /\ Len(dataset) <= Cardinality(SentPositions)
       /\ \A i \in 1..Len(dataset) :
            /\ \E j \in SentPositions : ResponseOf(dataset[i]) = BodyAt(j)
            /\ ParentsOf(i) = {} =>
                 InstructionOf(dataset[i]) =
                   intent_from_subject_or_body(unique_outbound[i].subject,
                                               unique_outbound[i].body)

\* process_mbox returned; a reply named an inbound message whose body is
\* empty after sanitizing, an outbound message was rejected too, and the
\* reply's instruction is synthetic
C18_Witness ==
  /\ pc = "done"
  /\ \E i \in 1..Len(dataset) :
       /\ ParentRejected(i)
       /\ \E j \in 1..Len(box) :
            /\ RejectedAt(j) /\ ~SentAt(j) /\ BodyAt(j) = <<>>
            /\ IdAt(j) = unique_outbound[i].inreply
       /\ InstructionOf(dataset[i]) \in SyntheticIntents
  /\ \E j \in 1..Len(box) : RejectedAt(j) /\ SentAt(j)

\* the rejection predicates of the classifier, as they are listed
ListedUrlOnly(b) ==
  \/ re_fullmatch(RE_url, str_strip(b), FALSE)
  \/ /\ WordCount(re_sub(RE_url, <<>>, b, FALSE, FALSE)) < 10
     /\ re_search(RE_url, b, FALSE)
ListedNames ==
  { "empty", "symbols", "reaction", "unsubscribe", "url", "auto", "test",
    "signature", "confirmation", "image", "code", "meeting", "headers", "form" }
Listed(name, b, s) ==
  CASE name = "empty"        -> str_strip(b) = <<>>
    [] name = "symbols"      -> str_strip(b) # <<>>
                                /\ \A k \in 1..Len(str_strip(b)) :
                                     ~IsWordChar(str_strip(b)[k]) /\ ~IsSpace(str_strip(b)[k])
    [] name = "reaction"     -> str_contains(b, <<"r","e","a","c","t","e","d"," ","v","i","a"," ","G","m","a","i","l">>)
    [] name = "unsubscribe"  -> str_lower(str_strip(b)) = <<"u","n","s","u","b","s","c","r","i","b","e">>
    [] name = "url"          -> ListedUrlOnly(b)
    [] name = "auto"         -> is_auto_generated(b)
    [] name = "test"         -> is_test_message(b, s)
    [] name = "signature"    -> WordCount(b) < 10
                                /\ (re_search(RE_phone, b, FALSE) \/ re_search(RE_email, b, FALSE))
    [] name = "confirmation" -> is_confirmation_email(b)
    [] name = "image"        -> has_only_image_refs(b)
    [] name = "code"         -> has_code_or_css(b)
    [] name = "meeting"      -> is_meeting_invite(b)
    [] name = "headers"      -> has_email_headers(b)
    [] name = "form"         -> has_form_data(b)
\* the listed predicates that hold, as a set: no order among them
ListedRejections(b, s) == {name \in ListedNames : Listed(name, b, s)}
Classified == tx_pc \in {"kept", "rejected"}

\* C19: is_meaningful keeps a body exactly when none of the listed rejection
\* predicates holds of it, in whatever order they are looked at; the body
\* "Sent from my iPhone", empty once sanitized, a bare URL, and a body of
\* fewer than 10 words with a phone-shaped or an e-mail-shaped token are
\* rejected.
C19_KeepIffNoListedRejection ==
  Classified =>
    /\ tx_pc = "kept" <=> ListedRejections(ClassifiedBody, tx_input.subject) = {}
    /\ (tx_input.body = <<"S","e","n","t"," ","f","r","o","m"," ","m","y"," ","i","P","h","o","n","e">> /\ tx_output # <<>>) =>
         ClassifiedBody = <<>> /\ tx_pc = "rejected"
    /\ ClassifiedBody = <<"h","t","t","p",":","/","/","e","x","a","m","p","l","e",".","c","o","m">> => tx_pc = "rejected"
    /\ ClassifiedBody = <<"J","o","h","n"," ","D","o","e","\n","5","5","5","-","1","2","3","-","4","5","6","7">> => tx_pc = "rejected"

(***************************************************************************)
(* Claims about duplicates and the two collections of process_mbox.        *)
(***************************************************************************)
LastSentPos(id) == SetMax({j \in SentPositions : IdAt(j) = id})
\* how many identifiers were first met at or before position j
RankOfFirst(j) == Cardinality({FirstSentPos(id) : id \in SentIds} \cap 1..j)

\* C21: when an identifier occurs several times among the meaningful
\* outbound messages, its example is built from the subject, the body and
\* the In-Reply-To of the last occurrence, and stands where the first
\* occurrence puts it.
C21_LastSeenWins ==
  pc = "done" =>
    \A i \in 1..Len(dataset) :
      LET e == EntryAt(LastSentPos(ExampleId(i)))
      IN  /\ unique_outbound[i] = e
          /\ ResponseOf(dataset[i]) = e.body
          /\ InstructionOf(dataset[i]) =
               IF e.inreply # <<>> /\ e.inreply \in DOMAIN inbound
               THEN inbound[e.inreply]
               ELSE intent_from_subject_or_body(e.subject, e.body)
          /\ i = RankOfFirst(FirstSentPos(ExampleId(i)))

\* an identifier occurred twice with different subject, body and
\* In-Reply-To, another identifier in between
C21_Witness ==
  /\ pc = "done" /\ Len(dataset) = 2
  /\ \E j1, j2, j3 \in SentPositions :
       /\ j1 < j2 /\ j2 < j3
       /\ IdAt(j1) = IdAt(j3) /\ IdAt(j1) # IdAt(j2)
       /\ EntryAt(j1).body # EntryAt(j3).body
       /\ EntryAt(j1).subject # EntryAt(j3).subject
       /\ EntryAt(j1).inreply # EntryAt(j3).inreply
       /\ ResponseOf(dataset[1]) = BodyAt(j3)

\* the lookup after body has been stored under id
Stored(lookup, id, body) ==
  [x \in (DOMAIN lookup) \cup {id} |-> IF x = id THEN body ELSE lookup[x]]

\* C22: each step of the first loop files a meaningful message in exactly
\* one place: appended to outbound when the self address, case-folded, is
\* part of the case-folded From header, stored in the lookup under its
\* identifier otherwise, a later body replacing an earlier one; a message
\* that is not meaningful changes neither, and no other step changes them.
C22_OutboundOrInbound ==
  [][ IF pos' = pos + 1
      THEN IF ~KeptAt(pos + 1)
             THEN outbound' = outbound /\ inbound' = inbound
           ELSE IF SentAt(pos + 1)
             THEN outbound' = Append(outbound, EntryAt(pos + 1)) /\ inbound' = inbound
           ELSE outbound' = outbound
                /\ inbound' = Stored(inbound, IdAt(pos + 1), BodyAt(pos + 1))
      ELSE outbound' = outbound /\ inbound' = inbound ]_vars

\* the loop is over: the address differs from the header in case only, two
\* inbound messages shared an identifier and the lookup holds the later body
C22_Witness ==
  /\ pc \in {"pair", "done"}
  /\ user_email # str_lower(user_email)
  /\ outbound # <<>>
  /\ \E j1, j2 \in ReceivedPositions :
       /\ j1 < j2 /\ IdAt(j1) = IdAt(j2) /\ BodyAt(j1) # BodyAt(j2)
       /\ inbound[IdAt(j1)] = BodyAt(j2)

(***************************************************************************)
(* Claims about what enhance_generic_prompts selects and touches.          *)
(***************************************************************************)
\* the instruction of the example at position k, "" when it has none
InstructionAt(k) ==
  IF "messages" \in DOMAIN en_examples[k]
  THEN FirstContent(en_examples[k].messages, "user") ELSE <<>>
\* the positions to refine, by the rule of the claim
ToRefine ==
  {k \in 1..Len(en_examples) :
     /\ "messages" \in DOMAIN en_examples[k]
     /\ str_strip(str_lower(InstructionAt(k))) \in GENERIC_PROMPTS}
Identified == en_pc \in {"batches", "done", "raised"}

\* C23: the positions enhance_generic_prompts selects are, in rising order,
\* exactly those whose instruction, case-folded and trimmed, is in
\* GENERIC_PROMPTS; the generic-tone instruction of the Conversation Builder
\* is always among them, its unsubscribe, reply, forwarding and brief
\* instructions never.
C23_SelectsGenericOnly ==
  Identified =>
    /\ Range(generic_indices) = ToRefine
    /\ \A j1, j2 \in 1..Len(generic_indices) :
         j1 < j2 => generic_indices[j1] < generic_indices[j2]
    /\ \A k \in 1..Len(en_examples) :
         /\ InstructionAt(k) = INTENT_GENERIC => k \in Range(generic_indices)
         /\ InstructionAt(k) \in {INTENT_UNSUBSCRIBE, INTENT_REPLY, INTENT_FORWARD, INTENT_BRIEF}
              => k \notin Range(generic_indices)

\* the list held all five instructions of the Conversation Builder, and a
\* generic instruction in another spelling
C23_Witness ==
  /\ en_pc = "done"
  /\ SyntheticIntents \subseteq {InstructionAt(k) : k \in 1..Len(en_examples)}
  /\ \E k \in Range(generic_indices) : InstructionAt(k) # INTENT_GENERIC
  /\ \E k \in Range(generic_indices) : InstructionAt(k) = INTENT_GENERIC
  /\ Len(generic_indices) < Len(en_examples)

(***************************************************************************)
(* Claims about the parsing of an answer.                                  *)
(***************************************************************************)
\* the non-blank lines of the answer, trimmed
AnswerLines(content) ==
  SelectSeq([k \in 1..Len(str_split_nl(content)) |-> str_strip(str_split_nl(content)[k])],
            LAMBDA l : l # <<>>)
\* the length of the ordinal marker a line begins with: digits and then one
\* of . ) : -- 0 when the line begins with none
MarkerLen(l) ==
  LET digits == {n \in 1..Len(l) : \A k \in 1..n : IsDigit(l[k])}
  IN  IF digits = {} THEN 0
      ELSE LET n == SetMax(digits)
           IN  IF n < Len(l) /\ l[n + 1] \in {".", ")", ":"} THEN n + 1 ELSE 0
\* an instruction line: a marker and some text after it
IsInstructionLine(l) ==
  MarkerLen(l) > 0 /\ str_strip(SubSeq(l, MarkerLen(l) + 1, Len(l))) # <<>>
WithoutMarker(l) == str_strip(SubSeq(l, MarkerLen(l) + 1, Len(l)))
InstructionLines(content) == SelectSeq(AnswerLines(content), IsInstructionLine)
Parsed == tx_pc = "returned" /\ tx_input.bodies # <<>>

\* C24: the prompts parsed from an answer are its instruction lines, in
\* order, each without its ordinal marker: every such line gives one prompt
\* and no other line gives any, so k numbered lines for k bodies give k
\* prompts, the i-th for the i-th body.
C24_OnePromptPerInstructionLine ==
  Parsed =>
    tx_output[1] =
      [i \in 1..Len(InstructionLines(tx_input.content)) |->
         WithoutMarker(InstructionLines(tx_input.content)[i])]

(***************************************************************************)
(* Claims about monitor_job.                                               *)
(***************************************************************************)
FinalStatuses == { <<"s","u","c","c","e","e","d","e","d">>, <<"f","a","i","l","e","d">>, <<"c","a","n","c","e","l","l","e","d">> }
MonitorEnded == mon_pc \in {"returned", "raised", "interrupted"}

\* C25: after each poll the loop ends exactly when the retrieved status is
\* succeeded, failed or cancelled, and otherwise waits and polls again (or
\* is interrupted from the keyboard); MODEL_INFO_FILE is written only in a
\* return with status succeeded, and then holds the retrieved job; once the
\* job is succeeded, failed or cancelled at the service, monitoring ends,
\* with that status when it returns.
C25_PollsUntilFinal ==
  /\ [][ (mon_pc = "check" /\ mon_pc' # "check") =>
           IF status \in FinalStatuses
             THEN mon_pc' = "returned"
             ELSE mon_pc' \in {"retrieve", "interrupted"} ]_vars
  /\ [][ model_info' # model_info =>
           /\ mon_pc' = "returned"
           /\ status = <<"s","u","c","c","e","e","d","e","d">>
           /\ model_info' = [job_id |-> JobId, model_id |-> job.fine_tuned_model,
                             base_model |-> FINETUNING_BASE_MODEL,
                             trained_tokens |-> job.trained_tokens, status |-> status] ]_vars
  /\ [](mon_pc = "returned" =>
          /\ status \in FinalStatuses
          /\ status = remote_job.status
          /\ status = <<"s","u","c","c","e","e","d","e","d">> => model_info.job_id = JobId)
  /\ (remote_job.status \in FinalStatuses) ~> MonitorEnded

\* a job seen queued, then running, then succeeded, its model written over
\* the file of an earlier run
C25_Witness ==
  /\ mon_pc = "returned"
  /\ shown = << <<"q","u","e","u","e","d">>, <<"r","u","n","n","i","n","g">>, <<"s","u","c","c","e","e","d","e","d">> >>
  /\ model_info.model_id = <<"f","t",":","m">>
  /\ model_info.job_id = JobId

\* the parts a multipart message offers: with content, not marked as
\* attachment, of a known character set
Usable(p) == p.payload # None /\ ~MarkedAttachment(p) /\ ~Undecodable(p)
PlainParts(msg) == SelectSeq(msg.parts, LAMBDA p : Usable(p) /\ p.ctype = "text/plain")
MarkupParts(msg) == SelectSeq(msg.parts, LAMBDA p : Usable(p) /\ p.ctype = "text/html")
\* lines 55-60 applied to the chosen text
FinalCleanup(body) ==
  str_strip(re_sub(RE_blank_lines, <<"\n", "\n">>, re_sub(RE_tag, <<>>, body, FALSE, FALSE), FALSE, FALSE))

\* C26: for a multipart message the body is that of the first plain-text
\* part that is not an attachment whenever there is one, empty or not, and
\* that of the first markup part only when there is no plain-text part.
C26_PlainBeforeMarkup ==
  (tx_pc = "returned" /\ tx_input.multipart) =>
    tx_output[1] =
      FinalCleanup(IF PlainParts(tx_input) # <<>> THEN Decode(PlainParts(tx_input)[1])
                   ELSE IF MarkupParts(tx_input) # <<>>
                          THEN html_get_text(Decode(MarkupParts(tx_input)[1]))
                   ELSE <<>>)

\* C27: process_mbox returns as many examples as the meaningful outbound
\* messages have distinct identifiers: one example for each unique outbound
\* message, with its body as the response, none lost in the second loop;
\* the first loop builds no example, so an inbound message adds none.
C27_CountOfDistinctIds ==
  /\ pc = "scan" => dataset = <<>>
  /\ pc = "pair" => Len(dataset) <= Cardinality(SentIds)
  /\ pc = "done" =>
       /\ Len(dataset) = Cardinality(SentIds)
       /\ {ExampleId(i) : i \in 1..Len(dataset)} = SentIds
       /\ \A i \in 1..Len(dataset) :
            /\ Len(dataset[i].messages) = 2
            /\ ResponseOf(dataset[i]) = unique_outbound[i].body
\* two outbound messages under one identifier and an inbound one gave one
\* example
C27_Witness ==
  /\ pc = "done"
  /\ Cardinality(SentPositions) = 2 /\ Cardinality(SentIds) = 1
  /\ ReceivedPositions # {}
  /\ Len(dataset) = 1

\* the meaningful outbound messages that carry no Message-ID
NoIdPositions == {j \in SentPositions : Corpus[box[j]].msgid = <<>>}
NoIdExamples == {i \in 1..Len(dataset) : ExampleId(i) = <<>>}

\* C28: when process_mbox returns, the meaningful outbound messages without
\* a Message-ID, however many and however different, have one example
\* between them, under the empty identifier, built from the last of them.
C28_NoIdSharesOneExample ==
  (pc = "done" /\ NoIdPositions # {}) =>
    /\ Cardinality(NoIdExamples) = 1
    /\ \A i \in NoIdExamples :
         LET e == EntryAt(SetMax(NoIdPositions))
         IN  /\ unique_outbound[i] = e
             /\ dataset[i] = BuildExample(e, inbound)
             /\ ResponseOf(dataset[i]) = BodyAt(SetMax(NoIdPositions))
    /\ Len(dataset) = Cardinality(SentIds \ {<<>>}) + 1
\* two different outbound messages without a Message-ID and one with
C28_Witness ==
  /\ pc = "done"
  /\ \E j1, j2 \in NoIdPositions : j1 < j2 /\ BodyAt(j1) # BodyAt(j2)
  /\ \E j \in SentPositions : IdAt(j) # <<>>
  /\ Len(dataset) = 2

Refined == pl_pc \in {"split", "done"} /\ en_pc = "done"
\* example k pairs the body of a resolved inbound message with its answer
FromInbound(k) == Resolves(unique_outbound[k], inbound)
GenericText(t) == str_strip(str_lower(t)) \in GENERIC_PROMPTS
Changed(k) == InstructionOf(enhanced_dataset[k]) # InstructionOf(dataset[k])

\* C30: once enhance_generic_prompts has returned in main, every example
\* whose instruction is the body of a resolved inbound message has that
\* instruction still, whatever its text: only synthesized instructions are
\* changed.
C30_InboundInstructionKept ==
  Refined =>
    \A k \in 1..Len(dataset) :
      FromInbound(k) =>
        /\ ~Changed(k)
        /\ InstructionOf(enhanced_dataset[k]) = inbound[unique_outbound[k].inreply]

\* C30, amended: once enhance_generic_prompts has returned in main, an
\* instruction is changed only if its text, case-folded and trimmed, is one
\* of GENERIC_PROMPTS, wherever it came from: the body of a resolved inbound
\* message is kept as instruction exactly when its text is none of them
\* (or the answer left it as it was), and the response is kept always.
C30_RefinesByText ==
  Refined =>
    /\ Len(enhanced_dataset) = Len(dataset)
    /\ \A k \in 1..Len(dataset) :
         /\ Changed(k) => GenericText(InstructionOf(dataset[k]))
         /\ (FromInbound(k) /\ ~GenericText(inbound[unique_outbound[k].inreply])) =>
              InstructionOf(enhanced_dataset[k]) = inbound[unique_outbound[k].inreply]
         /\ ResponseOf(enhanced_dataset[k]) = ResponseOf(dataset[k])
\* a mailbox with two resolved requests: the one whose text is a generic
\* phrasing was rewritten, the other kept, and synthesized ones rewritten too
C30_Witness ==
  /\ Refined /\ pl_pc = "done"
  /\ \E k \in 1..Len(dataset) :
       FromInbound(k) /\ GenericText(InstructionOf(dataset[k])) /\ Changed(k)
  /\ \E k \in 1..Len(dataset) :
       FromInbound(k) /\ ~GenericText(InstructionOf(dataset[k])) /\ ~Changed(k)
  /\ \E k \in 1..Len(dataset) : ~FromInbound(k) /\ Changed(k)

====
